---- MODULE Spec2Model ----
(***************************************************************************)
(* The raffle ledger of fair-luck: the confidential contract FHERaffle     *)
(* (contracts/FHERaffle.sol) and the plaintext contract FHERaffleLocal     *)
(* (contracts/FHERaffleLocal.sol), as one state machine.  The variable     *)
(* `variant` says which of the two contracts is deployed; the storage      *)
(* variables keep the names of the contracts' storage.  Every external     *)
(* function is one action that models the whole transaction: the require   *)
(* chain is its guard, followed by the writes and the emitted event.  A    *)
(* transaction that reverts changes nothing, so it is no step; the revert  *)
(* reason a call would get in a state is the value of the function's       *)
(* _revert operator there ("ok" when the call goes through).               *)
(***************************************************************************)
EXTENDS Integers, Sequences, FiniteSets, TLC

VARIABLES
  variant,      \* "confidential" (FHERaffle) or "plaintext" (FHERaffleLocal)
  now,          \* block.timestamp
  _raffles,     \* Raffle[] private _raffles
  _entries,     \* mapping(uint256 => Entry[]) private _entries
  _hasEntered,  \* mapping(uint256 => mapping(address => bool))
  acl,          \* grants made through FHE.allowThis / FHE.allow
  events,       \* the contract's event log, per indexed raffleId topic
  tx,           \* the latest transaction that went through: function,
                \* msg.sender and raffleId
  balance       \* address(this).balance, in wei

vars == <<variant, now, _raffles, _entries, _hasEntered, acl, events, tx, balance>>

ledger == <<_raffles, _entries, _hasEntered, acl, events>>

----------------------------------------------------------------------------
(* Bounds of the model *)

\* at most this many raffles are created
MaxRaffles == 2

\* the clock runs from 0 to this many hours
MaxHours == 2

\* at most this many entries are accepted over all raffles
MaxEntriesTotal == 3

\* keccak256 digests are drawn from 0 .. MaxDigest
MaxDigest == 2

----------------------------------------------------------------------------
(* Program constants and input sets *)

SecondsPerHour == 3600

\* 2^16: uint32 quantities are handled in 16-bit limbs, because the
\* integers of the model checker end below 2^31
Uint16Mod == 2^16

\* floor((2^32 - 1) / d), by long division over the two limbs 0xFFFF 0xFFFF
Uint32MaxDiv(d) ==
  ((Uint16Mod - 1) \div d) * Uint16Mod
    + ((((Uint16Mod - 1) % d) * Uint16Mod) + (Uint16Mod - 1)) \div d

\* uint64(x) keeps x below 2^64 and truncates above; the timestamps and
\* sums of the model stay below 2^30, and a value outside that range is
\* marked -1 instead of being truncated
uint64(x) == IF x >= 0 /\ x < 2^30 THEN x ELSE -1

ZeroAddress == "0x0"

ContractAddress == "this"

Callers == {"alice", "bob", "charlie"}

\* the callers that send createRaffle
Creators == {"alice", "bob"}

Titles == {"Test Raffle"}

Descriptions == {"A test raffle"}

\* prizeAmount, entryFee: zero and positive values
PrizeAmounts == {0, 5}

EntryFees == {0, 1}

\* maxEntries: below and at the minimum of 2
MaxEntriesChoices == {1, 2}

\* durationHours: zero, one hour, and the first value whose product
\* with 3600 leaves uint32 (1193047 * 3600 = 4294969200 > 2^32 - 1)
DurationChoices == {0, 1, 1193047}

\* plaintext entry amounts: below, at and above the entry fee
Amounts == {0, 1, 2}

\* msg.value of a call to a payable function: nothing attached, or one wei
Values == {0, 1}

\* the values hidden in the ciphertexts: below and above the entry fee
HiddenAmounts == {0, 2}

\* raffle ids a caller may pass: the existing ones and one past the end
RaffleIds == 0 .. MaxRaffles

\* keys of the mappings that the model keeps
RaffleKeys == 0 .. (MaxRaffles - 1)

Digests == 0 .. MaxDigest

Transaction(function, sender, raffleId) ==
  [ function |-> function, sender |-> sender, raffleId |-> raffleId ]

NoTransaction == Transaction("none", ZeroAddress, 0)

----------------------------------------------------------------------------
(* Storage accessors: Solidity arrays are 0-based *)

RaffleAt(raffleId) == _raffles[raffleId + 1]

EntryAt(raffleId, entryIndex) == _entries[raffleId][entryIndex + 1]

getRaffleCount == Len(_raffles)

getEntryCount(raffleId) == Len(_entries[raffleId])

RECURSIVE EntriesUpTo(_)
EntriesUpTo(k) == IF k < 0 THEN 0 ELSE Len(_entries[k]) + EntriesUpTo(k - 1)

\* the number of entries stored over all raffles
TotalEntries == EntriesUpTo(MaxRaffles - 1)

\* an emit that puts the event at the head of the log
Emit_prepends(raffleId, event) ==
  events' = [events EXCEPT ![raffleId] = <<event>> \o @]

\* emit: the event joins the log of its indexed raffleId
Emit(raffleId, event) ==
  events' = [events EXCEPT ![raffleId] = Append(@, event)]

hasEntered(raffleId, participant) == _hasEntered[raffleId][participant]

----------------------------------------------------------------------------
(* createRaffle: FHERaffle.sol 60-90, identical in FHERaffleLocal.sol 54-84 *)

\* durationHours * 3600 is computed in uint32 with checked arithmetic:
\* the product leaves uint32 exactly when durationHours > floor((2^32-1)/3600)
DurationOverflows(durationHours) == durationHours > Uint32MaxDiv(SecondsPerHour)

DurationSeconds(durationHours) == durationHours * SecondsPerHour

\* the require chain without the entry-fee check
createRaffle_revert_noFeeCheck(prizeAmount, entryFee, maxEntries, durationHours) ==
  IF ~(maxEntries >= 2) THEN "Max entries must be at least 2"
  ELSE IF ~(durationHours > 0) THEN "Duration must be positive"
  ELSE IF ~(prizeAmount > 0) THEN "Prize amount must be positive"
  ELSE IF DurationOverflows(durationHours) THEN "Panic(0x11)"
  ELSE "ok"

createRaffle_revert(prizeAmount, entryFee, maxEntries, durationHours) ==
  IF ~(maxEntries >= 2) THEN "Max entries must be at least 2"
  ELSE IF ~(durationHours > 0) THEN "Duration must be positive"
  ELSE IF ~(prizeAmount > 0) THEN "Prize amount must be positive"
  ELSE IF ~(entryFee > 0) THEN "Entry fee must be positive"
  ELSE IF DurationOverflows(durationHours) THEN "Panic(0x11)"
  ELSE "ok"

NewRaffle(sender, title, description, prizeAmount, entryFee, maxEntries, durationHours) ==
  [ creator        |-> sender,
    title          |-> title,
    description    |-> description,
    prizeAmount    |-> prizeAmount,
    entryFee       |-> entryFee,
    maxEntries     |-> maxEntries,
    expireAt       |-> uint64(now + DurationSeconds(durationHours)),
    currentEntries |-> 0,
    isActive       |-> TRUE,
    isDrawn        |-> FALSE,
    winner         |-> ZeroAddress,
    createdAt      |-> uint64(now) ]

\* the id taken from the last raffle in place of the array length
NextRaffleId_reusesLast == IF Len(_raffles) = 0 THEN 0 ELSE Len(_raffles) - 1

\* uint256 raffleId = _raffles.length
NextRaffleId == Len(_raffles)

createRaffle(sender, title, description, prizeAmount, entryFee, maxEntries, durationHours) ==
  LET status == createRaffle_revert(prizeAmount, entryFee, maxEntries, durationHours)
      raffleId == NextRaffleId
      raffle == NewRaffle(sender, title, description, prizeAmount, entryFee,
                          maxEntries, durationHours)
  IN  /\ Len(_raffles) < MaxRaffles
      /\ status = "ok"
      /\ tx' = Transaction("createRaffle", sender, raffleId)
      /\ _raffles' = Append(_raffles, raffle)
      /\ Emit(raffleId,
            [ name |-> "RaffleCreated", raffleId |-> raffleId,
              creator |-> sender, title |-> title,
              createdAt |-> raffle.createdAt ])
      /\ UNCHANGED <<_entries, _hasEntered, acl>>
      /\ UNCHANGED <<variant, now, balance>>

----------------------------------------------------------------------------
(* enterRaffle *)

\* the require chain without the capacity check
FHERaffle_enterRaffle_require_noCapacity(sender, raffleId) ==
  IF ~(raffleId < Len(_raffles)) THEN "Invalid raffle ID"
  ELSE IF ~RaffleAt(raffleId).isActive THEN "Raffle is not active"
  ELSE IF ~(now < RaffleAt(raffleId).expireAt) THEN "Raffle has expired"
  ELSE IF _hasEntered[raffleId][sender] THEN "Already entered"
  ELSE "ok"

\* the expiry check written with <= in place of <
FHERaffle_enterRaffle_require_expiryOffByOne(sender, raffleId) ==
  IF ~(raffleId < Len(_raffles)) THEN "Invalid raffle ID"
  ELSE IF ~RaffleAt(raffleId).isActive THEN "Raffle is not active"
  ELSE IF ~(now <= RaffleAt(raffleId).expireAt) THEN "Raffle has expired"
  ELSE IF ~(RaffleAt(raffleId).currentEntries < RaffleAt(raffleId).maxEntries)
       THEN "Raffle is full"
  ELSE IF _hasEntered[raffleId][sender] THEN "Already entered"
  ELSE "ok"

\* the require chain turning the raffle's creator away
FHERaffle_enterRaffle_require_noCreator(sender, raffleId) ==
  IF ~(raffleId < Len(_raffles)) THEN "Invalid raffle ID"
  ELSE IF ~RaffleAt(raffleId).isActive THEN "Raffle is not active"
  ELSE IF ~(now < RaffleAt(raffleId).expireAt) THEN "Raffle has expired"
  ELSE IF ~(RaffleAt(raffleId).currentEntries < RaffleAt(raffleId).maxEntries)
       THEN "Raffle is full"
  ELSE IF _hasEntered[raffleId][sender] THEN "Already entered"
  ELSE IF sender = RaffleAt(raffleId).creator THEN "Creator cannot enter"
  ELSE "ok"

\* FHERaffle.sol 102-107
FHERaffle_enterRaffle_require(sender, raffleId) ==
  IF ~(raffleId < Len(_raffles)) THEN "Invalid raffle ID"
  ELSE IF ~RaffleAt(raffleId).isActive THEN "Raffle is not active"
  ELSE IF ~(now < RaffleAt(raffleId).expireAt) THEN "Raffle has expired"
  ELSE IF ~(RaffleAt(raffleId).currentEntries < RaffleAt(raffleId).maxEntries)
       THEN "Raffle is full"
  ELSE IF _hasEntered[raffleId][sender] THEN "Already entered"
  ELSE "ok"

\* FHE.fromExternal(encAmount, inputProof): the engine rejects an input whose
\* proof does not verify, and the transaction reverts
FHE_fromExternal_revert(proofValid) ==
  IF proofValid THEN "ok" ELSE "InvalidCiphertext"

FHERaffle_enterRaffle_revert(sender, raffleId, proofValid) ==
  IF FHERaffle_enterRaffle_require(sender, raffleId) # "ok"
  THEN FHERaffle_enterRaffle_require(sender, raffleId)
  ELSE FHE_fromExternal_revert(proofValid)

\* the expiry check written with <= in place of <
FHERaffleLocal_enterRaffle_revert_expiryOffByOne(sender, raffleId, amount) ==
  IF ~(raffleId < Len(_raffles)) THEN "Invalid raffle ID"
  ELSE IF ~RaffleAt(raffleId).isActive THEN "Raffle is not active"
  ELSE IF ~(now <= RaffleAt(raffleId).expireAt) THEN "Raffle has expired"
  ELSE IF ~(RaffleAt(raffleId).currentEntries < RaffleAt(raffleId).maxEntries)
       THEN "Raffle is full"
  ELSE IF _hasEntered[raffleId][sender] THEN "Already entered"
  ELSE IF ~(amount >= RaffleAt(raffleId).entryFee)
       THEN "Entry amount must be >= entry fee"
  ELSE "ok"

\* the minimum-amount check written with > in place of >=
FHERaffleLocal_enterRaffle_revert_strictMinimum(sender, raffleId, amount) ==
  IF ~(raffleId < Len(_raffles)) THEN "Invalid raffle ID"
  ELSE IF ~RaffleAt(raffleId).isActive THEN "Raffle is not active"
  ELSE IF ~(now < RaffleAt(raffleId).expireAt) THEN "Raffle has expired"
  ELSE IF ~(RaffleAt(raffleId).currentEntries < RaffleAt(raffleId).maxEntries)
       THEN "Raffle is full"
  ELSE IF _hasEntered[raffleId][sender] THEN "Already entered"
  ELSE IF ~(amount > RaffleAt(raffleId).entryFee)
       THEN "Entry amount must be >= entry fee"
  ELSE "ok"

\* the membership check moved in front of the capacity check
FHERaffleLocal_enterRaffle_revert_duplicateFirst(sender, raffleId, amount) ==
  IF ~(raffleId < Len(_raffles)) THEN "Invalid raffle ID"
  ELSE IF ~RaffleAt(raffleId).isActive THEN "Raffle is not active"
  ELSE IF ~(now < RaffleAt(raffleId).expireAt) THEN "Raffle has expired"
  ELSE IF _hasEntered[raffleId][sender] THEN "Already entered"
  ELSE IF ~(RaffleAt(raffleId).currentEntries < RaffleAt(raffleId).maxEntries)
       THEN "Raffle is full"
  ELSE IF ~(amount >= RaffleAt(raffleId).entryFee)
       THEN "Entry amount must be >= entry fee"
  ELSE "ok"

\* the require chain without the membership check
FHERaffleLocal_enterRaffle_revert_noDuplicateCheck(sender, raffleId, amount) ==
  IF ~(raffleId < Len(_raffles)) THEN "Invalid raffle ID"
  ELSE IF ~RaffleAt(raffleId).isActive THEN "Raffle is not active"
  ELSE IF ~(now < RaffleAt(raffleId).expireAt) THEN "Raffle has expired"
  ELSE IF ~(RaffleAt(raffleId).currentEntries < RaffleAt(raffleId).maxEntries)
       THEN "Raffle is full"
  ELSE IF ~(amount >= RaffleAt(raffleId).entryFee)
       THEN "Entry amount must be >= entry fee"
  ELSE "ok"

\* the require chain without the minimum-amount check
FHERaffleLocal_enterRaffle_revert_noMinimum(sender, raffleId, amount) ==
  IF ~(raffleId < Len(_raffles)) THEN "Invalid raffle ID"
  ELSE IF ~RaffleAt(raffleId).isActive THEN "Raffle is not active"
  ELSE IF ~(now < RaffleAt(raffleId).expireAt) THEN "Raffle has expired"
  ELSE IF ~(RaffleAt(raffleId).currentEntries < RaffleAt(raffleId).maxEntries)
       THEN "Raffle is full"
  ELSE IF _hasEntered[raffleId][sender] THEN "Already entered"
  ELSE "ok"

\* the capacity check written with <= in place of <
FHERaffleLocal_enterRaffle_revert_fullOffByOne(sender, raffleId, amount) ==
  IF ~(raffleId < Len(_raffles)) THEN "Invalid raffle ID"
  ELSE IF ~RaffleAt(raffleId).isActive THEN "Raffle is not active"
  ELSE IF ~(now < RaffleAt(raffleId).expireAt) THEN "Raffle has expired"
  ELSE IF ~(RaffleAt(raffleId).currentEntries <= RaffleAt(raffleId).maxEntries)
       THEN "Raffle is full"
  ELSE IF _hasEntered[raffleId][sender] THEN "Already entered"
  ELSE IF ~(amount >= RaffleAt(raffleId).entryFee)
       THEN "Entry amount must be >= entry fee"
  ELSE "ok"

\* FHERaffleLocal.sol 93-99
FHERaffleLocal_enterRaffle_revert(sender, raffleId, amount) ==
  IF ~(raffleId < Len(_raffles)) THEN "Invalid raffle ID"
  ELSE IF ~RaffleAt(raffleId).isActive THEN "Raffle is not active"
  ELSE IF ~(now < RaffleAt(raffleId).expireAt) THEN "Raffle has expired"
  ELSE IF ~(RaffleAt(raffleId).currentEntries < RaffleAt(raffleId).maxEntries)
       THEN "Raffle is full"
  ELSE IF _hasEntered[raffleId][sender] THEN "Already entered"
  ELSE IF ~(amount >= RaffleAt(raffleId).entryFee)
       THEN "Entry amount must be >= entry fee"
  ELSE "ok"

NewEntry(sender, amount) ==
  [ participant |-> sender, amount |-> amount, createdAt |-> uint64(now) ]

\* StoreEntry without the write to _hasEntered
StoreEntry_noMembership(sender, raffleId, amount) ==
  /\ _entries' = [_entries EXCEPT ![raffleId] = Append(@, NewEntry(sender, amount))]
  /\ _hasEntered' = _hasEntered
  /\ _raffles' = [_raffles EXCEPT ![raffleId + 1].currentEntries = @ + 1]

\* StoreEntry adding two to raffle.currentEntries
StoreEntry_countsTwice(sender, raffleId, amount) ==
  /\ _entries' = [_entries EXCEPT ![raffleId] = Append(@, NewEntry(sender, amount))]
  /\ _hasEntered' = [_hasEntered EXCEPT ![raffleId][sender] = TRUE]
  /\ _raffles' = [_raffles EXCEPT ![raffleId + 1].currentEntries = @ + 2]

\* StoreEntry without raffle.currentEntries++
StoreEntry_noCount(sender, raffleId, amount) ==
  /\ _entries' = [_entries EXCEPT ![raffleId] = Append(@, NewEntry(sender, amount))]
  /\ _hasEntered' = [_hasEntered EXCEPT ![raffleId][sender] = TRUE]
  /\ _raffles' = _raffles

\* StoreEntry putting the new entry in front of the sequence
StoreEntry_prepends(sender, raffleId, amount) ==
  /\ _entries' = [_entries EXCEPT ![raffleId] = <<NewEntry(sender, amount)>> \o @]
  /\ _hasEntered' = [_hasEntered EXCEPT ![raffleId][sender] = TRUE]
  /\ _raffles' = [_raffles EXCEPT ![raffleId + 1].currentEntries = @ + 1]

\* StoreEntry pushing the entry twice
StoreEntry_pushesTwice(sender, raffleId, amount) ==
  /\ _entries' = [_entries EXCEPT ![raffleId] =
                     Append(Append(@, NewEntry(sender, amount)), NewEntry(sender, amount))]
  /\ _hasEntered' = [_hasEntered EXCEPT ![raffleId][sender] = TRUE]
  /\ _raffles' = [_raffles EXCEPT ![raffleId + 1].currentEntries = @ + 1]

\* StoreEntry marking the sender as a member of every raffle
StoreEntry_everyRaffle(sender, raffleId, amount) ==
  /\ _entries' = [_entries EXCEPT ![raffleId] = Append(@, NewEntry(sender, amount))]
  /\ _hasEntered' = [ id \in RaffleKeys |-> [_hasEntered[id] EXCEPT ![sender] = TRUE] ]
  /\ _raffles' = [_raffles EXCEPT ![raffleId + 1].currentEntries = @ + 1]

\* the three storage writes shared by both contracts:
\* _entries[raffleId].push(entry); _hasEntered[raffleId][msg.sender] = true;
\* raffle.currentEntries++
StoreEntry(sender, raffleId, amount) ==
  /\ _entries' = [_entries EXCEPT ![raffleId] = Append(@, NewEntry(sender, amount))]
  /\ _hasEntered' = [_hasEntered EXCEPT ![raffleId][sender] = TRUE]
  /\ _raffles' = [_raffles EXCEPT ![raffleId + 1].currentEntries = @ + 1]

\* a third grant, to the raffle's creator
GrantsOnEntry_creatorToo(sender, raffleId) ==
  { <<raffleId, Len(_entries[raffleId]), ContractAddress>>,
    <<raffleId, Len(_entries[raffleId]), sender>>,
    <<raffleId, Len(_entries[raffleId]), RaffleAt(raffleId).creator>> }

\* FHE.allowThis(handle); FHE.allow(handle, msg.sender): the handle is the
\* amount of the entry just pushed, named here by its place
GrantsOnEntry(sender, raffleId) ==
  { <<raffleId, Len(_entries[raffleId]), ContractAddress>>,
    <<raffleId, Len(_entries[raffleId]), sender>> }

\* enterRaffle of the confidential variant storing the entry whatever
\* FHE.fromExternal says of the proof
FHERaffle_enterRaffle_unverified(sender, raffleId, hidden, proofValid) ==
  LET status == FHERaffle_enterRaffle_require(sender, raffleId)
  IN  /\ variant = "confidential"
      /\ TotalEntries < MaxEntriesTotal
      /\ status = "ok"
      /\ tx' = Transaction("enterRaffle", sender, raffleId)
      /\ StoreEntry(sender, raffleId, hidden)
      /\ acl' = acl \cup GrantsOnEntry(sender, raffleId)
      /\ Emit(raffleId,
            [ name |-> "EntrySubmitted", raffleId |-> raffleId,
              participant |-> sender, createdAt |-> uint64(now) ])
      /\ UNCHANGED <<variant, now, balance>>

\* enterRaffle of the confidential variant with the amount in its event, as
\* the plaintext variant has it
FHERaffle_enterRaffle_emitsAmount(sender, raffleId, hidden, proofValid) ==
  LET status == FHERaffle_enterRaffle_revert(sender, raffleId, proofValid)
  IN  /\ variant = "confidential"
      /\ TotalEntries < MaxEntriesTotal
      /\ status = "ok"
      /\ tx' = Transaction("enterRaffle", sender, raffleId)
      /\ StoreEntry(sender, raffleId, hidden)
      /\ acl' = acl \cup GrantsOnEntry(sender, raffleId)
      /\ Emit(raffleId,
            [ name |-> "EntrySubmitted", raffleId |-> raffleId,
              participant |-> sender, amount |-> hidden,
              createdAt |-> uint64(now) ])
      /\ UNCHANGED <<variant, now, balance>>

\* enterRaffle of the confidential variant turning away a hidden amount
\* below the entry fee
FHERaffle_enterRaffle_enforcesMinimum(sender, raffleId, hidden, proofValid) ==
  LET status == FHERaffle_enterRaffle_revert(sender, raffleId, proofValid)
  IN  /\ variant = "confidential"
      /\ TotalEntries < MaxEntriesTotal
      /\ status = "ok"
      /\ hidden >= RaffleAt(raffleId).entryFee
      /\ tx' = Transaction("enterRaffle", sender, raffleId)
      /\ StoreEntry(sender, raffleId, hidden)
      /\ acl' = acl \cup GrantsOnEntry(sender, raffleId)
      /\ Emit(raffleId,
            [ name |-> "EntrySubmitted", raffleId |-> raffleId,
              participant |-> sender, createdAt |-> uint64(now) ])
      /\ UNCHANGED <<variant, now, balance>>

\* FHERaffle.enterRaffle(raffleId, encAmount, inputProof): hidden is the value
\* inside the ciphertext, which the contract never reads
FHERaffle_enterRaffle(sender, raffleId, hidden, proofValid) ==
  LET status == FHERaffle_enterRaffle_revert(sender, raffleId, proofValid)
  IN  /\ variant = "confidential"
      /\ TotalEntries < MaxEntriesTotal
      /\ status = "ok"
      /\ tx' = Transaction("enterRaffle", sender, raffleId)
      /\ StoreEntry(sender, raffleId, hidden)
      /\ acl' = acl \cup GrantsOnEntry(sender, raffleId)
      /\ Emit(raffleId,
            [ name |-> "EntrySubmitted", raffleId |-> raffleId,
              participant |-> sender, createdAt |-> uint64(now) ])
      /\ UNCHANGED <<variant, now, balance>>

\* FHERaffleLocal.enterRaffle(raffleId, amount) with msg.value = value: the
\* function is payable and never reads msg.value, the value attached joins
\* the balance of the contract
FHERaffleLocal_enterRaffle(sender, raffleId, amount, value) ==
  LET status == FHERaffleLocal_enterRaffle_revert(sender, raffleId, amount)
  IN  /\ variant = "plaintext"
      /\ TotalEntries < MaxEntriesTotal
      /\ status = "ok"
      /\ tx' = Transaction("enterRaffle", sender, raffleId)
      /\ StoreEntry(sender, raffleId, amount)
      /\ Emit(raffleId,
            [ name |-> "EntrySubmitted", raffleId |-> raffleId,
              participant |-> sender, amount |-> amount,
              createdAt |-> uint64(now) ])
      /\ balance' = balance + value
      /\ UNCHANGED acl
      /\ UNCHANGED <<variant, now>>

----------------------------------------------------------------------------
(* drawWinner *)

\* the require chain without the two state guards (isActive, !isDrawn)
FHERaffle_drawWinner_revert_noStateGuards(sender, raffleId) ==
  IF ~(raffleId < Len(_raffles)) THEN "Invalid raffle ID"
  ELSE IF ~(sender = RaffleAt(raffleId).creator) THEN "Only creator can draw"
  ELSE IF ~(now >= RaffleAt(raffleId).expireAt) THEN "Raffle has not expired"
  ELSE IF ~(Len(_entries[raffleId]) > 0) THEN "No entries"
  ELSE "ok"

\* the expiry check written with > in place of >=
FHERaffle_drawWinner_revert_expiryStrict(sender, raffleId) ==
  IF ~(raffleId < Len(_raffles)) THEN "Invalid raffle ID"
  ELSE IF ~(sender = RaffleAt(raffleId).creator) THEN "Only creator can draw"
  ELSE IF ~RaffleAt(raffleId).isActive THEN "Raffle is not active"
  ELSE IF ~(now > RaffleAt(raffleId).expireAt) THEN "Raffle has not expired"
  ELSE IF RaffleAt(raffleId).isDrawn THEN "Winner already drawn"
  ELSE IF ~(Len(_entries[raffleId]) > 0) THEN "No entries"
  ELSE "ok"

\* FHERaffle.sol 264-270
FHERaffle_drawWinner_revert(sender, raffleId) ==
  IF ~(raffleId < Len(_raffles)) THEN "Invalid raffle ID"
  ELSE IF ~(sender = RaffleAt(raffleId).creator) THEN "Only creator can draw"
  ELSE IF ~RaffleAt(raffleId).isActive THEN "Raffle is not active"
  ELSE IF ~(now >= RaffleAt(raffleId).expireAt) THEN "Raffle has not expired"
  ELSE IF RaffleAt(raffleId).isDrawn THEN "Winner already drawn"
  ELSE IF ~(Len(_entries[raffleId]) > 0) THEN "No entries"
  ELSE "ok"

\* the require chain without the creator check
FHERaffleLocal_drawWinner_revert_anyCaller(sender, raffleId) ==
  IF ~(raffleId < Len(_raffles)) THEN "Invalid raffle ID"
  ELSE IF ~RaffleAt(raffleId).isActive THEN "Raffle is not active"
  ELSE IF ~(now >= RaffleAt(raffleId).expireAt) THEN "Raffle has not expired"
  ELSE IF RaffleAt(raffleId).isDrawn THEN "Winner already drawn"
  ELSE IF ~(Len(_entries[raffleId]) > 0) THEN "No entries"
  ELSE "ok"

\* the require chain without the expiry check
FHERaffleLocal_drawWinner_revert_noExpiry(sender, raffleId) ==
  IF ~(raffleId < Len(_raffles)) THEN "Invalid raffle ID"
  ELSE IF ~(sender = RaffleAt(raffleId).creator) THEN "Only creator can draw"
  ELSE IF ~RaffleAt(raffleId).isActive THEN "Raffle is not active"
  ELSE IF RaffleAt(raffleId).isDrawn THEN "Winner already drawn"
  ELSE IF ~(Len(_entries[raffleId]) > 0) THEN "No entries"
  ELSE "ok"

\* the require chain without the entries check
FHERaffleLocal_drawWinner_revert_noEntriesCheck(sender, raffleId) ==
  IF ~(raffleId < Len(_raffles)) THEN "Invalid raffle ID"
  ELSE IF ~(sender = RaffleAt(raffleId).creator) THEN "Only creator can draw"
  ELSE IF ~RaffleAt(raffleId).isActive THEN "Raffle is not active"
  ELSE IF ~(now >= RaffleAt(raffleId).expireAt) THEN "Raffle has not expired"
  ELSE IF RaffleAt(raffleId).isDrawn THEN "Winner already drawn"
  ELSE "ok"

\* the require chain asking for more than one entry
FHERaffleLocal_drawWinner_revert_needsTwoEntries(sender, raffleId) ==
  IF ~(raffleId < Len(_raffles)) THEN "Invalid raffle ID"
  ELSE IF ~(sender = RaffleAt(raffleId).creator) THEN "Only creator can draw"
  ELSE IF ~RaffleAt(raffleId).isActive THEN "Raffle is not active"
  ELSE IF ~(now >= RaffleAt(raffleId).expireAt) THEN "Raffle has not expired"
  ELSE IF RaffleAt(raffleId).isDrawn THEN "Winner already drawn"
  ELSE IF ~(Len(_entries[raffleId]) > 1) THEN "No entries"
  ELSE "ok"

\* FHERaffleLocal.sol 219-225
FHERaffleLocal_drawWinner_revert(sender, raffleId) ==
  IF ~(raffleId < Len(_raffles)) THEN "Invalid raffle ID"
  ELSE IF ~(sender = RaffleAt(raffleId).creator) THEN "Only creator can draw"
  ELSE IF ~RaffleAt(raffleId).isActive THEN "Raffle is not active"
  ELSE IF ~(now >= RaffleAt(raffleId).expireAt) THEN "Raffle has not expired"
  ELSE IF RaffleAt(raffleId).isDrawn THEN "Winner already drawn"
  ELSE IF ~(Len(_entries[raffleId]) > 0) THEN "No entries"
  ELSE "ok"

\* uint256(keccak256(abi.encodePacked(block.timestamp, block.prevrandao,
\* raffleId))) % _entries[raffleId].length: the digest is any value
RandomIndex(digest, raffleId) == digest % Len(_entries[raffleId])

\* the draw's writes with the entry counter set back to zero
MarkDrawn_resetsCount(raffleId, winnerAddress) ==
  _raffles' = [_raffles EXCEPT ![raffleId + 1].winner = winnerAddress,
                               ![raffleId + 1].isDrawn = TRUE,
                               ![raffleId + 1].isActive = FALSE,
                               ![raffleId + 1].currentEntries = 0]

\* the draw's writes without raffle.isActive = false
MarkDrawn_staysActive(raffleId, winnerAddress) ==
  _raffles' = [_raffles EXCEPT ![raffleId + 1].winner = winnerAddress,
                               ![raffleId + 1].isDrawn = TRUE]

\* raffle.winner = ...; raffle.isDrawn = true; raffle.isActive = false
MarkDrawn(raffleId, winnerAddress) ==
  _raffles' = [_raffles EXCEPT ![raffleId + 1].winner = winnerAddress,
                               ![raffleId + 1].isDrawn = TRUE,
                               ![raffleId + 1].isActive = FALSE]

FHERaffle_drawWinner(sender, raffleId, digest) ==
  LET status == FHERaffle_drawWinner_revert(sender, raffleId)
      winnerAddress == EntryAt(raffleId, RandomIndex(digest, raffleId)).participant
  IN  /\ variant = "confidential"
      /\ status = "ok"
      /\ tx' = Transaction("drawWinner", sender, raffleId)
      /\ MarkDrawn(raffleId, winnerAddress)
      /\ Emit(raffleId,
            [ name |-> "RaffleDrawn", raffleId |-> raffleId,
              winner |-> winnerAddress, drawnAt |-> uint64(now) ])
      /\ UNCHANGED <<_entries, _hasEntered, acl>>
      /\ UNCHANGED <<variant, now, balance>>

\* the loop of FHERaffleLocal.sol 232-239, from entry i on, with the loop's
\* locals in best
RECURSIVE ScanHighest(_, _, _)
ScanHighest(entries, i, best) ==
  IF ~(i < Len(entries)) THEN best
  ELSE IF entries[i + 1].amount > best.highestAmount
       THEN ScanHighest(entries, i + 1,
              [ highestAmount |-> entries[i + 1].amount,
                winnerIndex   |-> i,
                winnerAddress |-> entries[i + 1].participant ])
       ELSE ScanHighest(entries, i + 1, best)

\* the scan with >= in place of >: the last of the highest entries is kept
RECURSIVE ScanHighest_lastWins(_, _, _)
ScanHighest_lastWins(entries, i, best) ==
  IF ~(i < Len(entries)) THEN best
  ELSE IF entries[i + 1].amount >= best.highestAmount
       THEN ScanHighest_lastWins(entries, i + 1,
              [ highestAmount |-> entries[i + 1].amount,
                winnerIndex   |-> i,
                winnerAddress |-> entries[i + 1].participant ])
       ELSE ScanHighest_lastWins(entries, i + 1, best)

HighestEntry_lastWins(raffleId) ==
  ScanHighest_lastWins(_entries[raffleId], 0,
    [ highestAmount |-> 0, winnerIndex |-> 0, winnerAddress |-> ZeroAddress ])

\* the scan run over the entries of raffle 0, whatever raffle is drawn
HighestEntry_firstRaffle(raffleId) ==
  ScanHighest(_entries[0], 0,
    [ highestAmount |-> 0, winnerIndex |-> 0, winnerAddress |-> ZeroAddress ])

\* FHERaffleLocal.sol 228-239: highestAmount = 0, winnerIndex = 0 and an
\* unset winnerAddress before the loop
HighestEntry(raffleId) ==
  ScanHighest(_entries[raffleId], 0,
    [ highestAmount |-> 0, winnerIndex |-> 0, winnerAddress |-> ZeroAddress ])

\* the sum of the amounts of the entries from entry i on
RECURSIVE SumOfAmounts(_, _)
SumOfAmounts(entries, i) ==
  IF ~(i < Len(entries)) THEN 0
  ELSE entries[i + 1].amount + SumOfAmounts(entries, i + 1)

\* drawWinner of the plaintext variant with the sum of the entry amounts in
\* its event, as the event's field name has it
FHERaffleLocal_drawWinner_emitsSum(sender, raffleId) ==
  LET status == FHERaffleLocal_drawWinner_revert(sender, raffleId)
      best == HighestEntry(raffleId)
  IN  /\ variant = "plaintext"
      /\ status = "ok"
      /\ tx' = Transaction("drawWinner", sender, raffleId)
      /\ MarkDrawn(raffleId, best.winnerAddress)
      /\ Emit(raffleId,
            [ name |-> "RaffleDrawn", raffleId |-> raffleId,
              winner |-> best.winnerAddress,
              totalEntryAmount |-> SumOfAmounts(_entries[raffleId], 0),
              drawnAt |-> uint64(now) ])
      /\ UNCHANGED <<_entries, _hasEntered, acl>>
      /\ UNCHANGED <<variant, now, balance>>

\* drawWinner of the plaintext variant sending what the contract holds to
\* the winner
FHERaffleLocal_drawWinner_paysWinner(sender, raffleId) ==
  LET status == FHERaffleLocal_drawWinner_revert(sender, raffleId)
      best == HighestEntry(raffleId)
  IN  /\ variant = "plaintext"
      /\ status = "ok"
      /\ tx' = Transaction("drawWinner", sender, raffleId)
      /\ MarkDrawn(raffleId, best.winnerAddress)
      /\ Emit(raffleId,
            [ name |-> "RaffleDrawn", raffleId |-> raffleId,
              winner |-> best.winnerAddress,
              totalEntryAmount |-> best.highestAmount,
              drawnAt |-> uint64(now) ])
      /\ balance' = 0
      /\ UNCHANGED <<_entries, _hasEntered, acl>>
      /\ UNCHANGED <<variant, now>>

FHERaffleLocal_drawWinner(sender, raffleId) ==
  LET status == FHERaffleLocal_drawWinner_revert(sender, raffleId)
      best == HighestEntry(raffleId)
  IN  /\ variant = "plaintext"
      /\ status = "ok"
      /\ tx' = Transaction("drawWinner", sender, raffleId)
      /\ MarkDrawn(raffleId, best.winnerAddress)
      /\ Emit(raffleId,
            [ name |-> "RaffleDrawn", raffleId |-> raffleId,
              winner |-> best.winnerAddress,
              totalEntryAmount |-> best.highestAmount,
              drawnAt |-> uint64(now) ])
      /\ UNCHANGED <<_entries, _hasEntered, acl>>
      /\ UNCHANGED <<variant, now, balance>>

----------------------------------------------------------------------------
(* The chain: a new block carries a later timestamp *)

MineBlock ==
  /\ now + SecondsPerHour <= MaxHours * SecondsPerHour
  /\ now' = now + SecondsPerHour
  /\ UNCHANGED <<variant, _raffles, _entries, _hasEntered, acl, events, tx, balance>>

----------------------------------------------------------------------------
(* The state machine *)

Init ==
  /\ variant \in {"confidential", "plaintext"}
  /\ now = 0
  /\ _raffles = << >>
  /\ _entries = [k \in RaffleKeys |-> << >>]
  /\ _hasEntered = [k \in RaffleKeys |-> [a \in Callers |-> FALSE]]
  /\ acl = {}
  /\ events = [k \in RaffleKeys |-> << >>]
  /\ tx = NoTransaction
  /\ balance = 0

CreateStep ==
  \E sender \in Creators, title \in Titles, description \in Descriptions,
     prizeAmount \in PrizeAmounts, entryFee \in EntryFees,
     maxEntries \in MaxEntriesChoices, durationHours \in DurationChoices :
    createRaffle(sender, title, description, prizeAmount, entryFee,
                 maxEntries, durationHours)

EnterConfidentialStep ==
  \E sender \in Callers, raffleId \in RaffleIds, hidden \in HiddenAmounts,
     proofValid \in BOOLEAN :
    FHERaffle_enterRaffle(sender, raffleId, hidden, proofValid)

EnterPlaintextStep ==
  \E sender \in Callers, raffleId \in RaffleIds, amount \in Amounts, value \in Values :
    FHERaffleLocal_enterRaffle(sender, raffleId, amount, value)

DrawConfidentialStep ==
  \E sender \in Callers, raffleId \in RaffleIds, digest \in Digests :
    FHERaffle_drawWinner(sender, raffleId, digest)

DrawPlaintextStep ==
  \E sender \in Callers, raffleId \in RaffleIds :
    FHERaffleLocal_drawWinner(sender, raffleId)

Next ==
  \/ CreateStep
  \/ EnterConfidentialStep
  \/ EnterPlaintextStep
  \/ DrawConfidentialStep
  \/ DrawPlaintextStep
  \/ MineBlock

Spec == Init /\ [][Next]_vars

----------------------------------------------------------------------------
(* Vocabulary of the properties *)

ExistingIds == 0 .. (Len(_raffles) - 1)

EntryIndexes(raffleId) == 0 .. (Len(_entries[raffleId]) - 1)

Participants(raffleId) ==
  { EntryAt(raffleId, i).participant : i \in EntryIndexes(raffleId) }

\* the revert reason of drawWinner(raffleId) sent by sender, in the deployed
\* contract
drawWinner_revert(sender, raffleId) ==
  IF variant = "confidential"
  THEN FHERaffle_drawWinner_revert(sender, raffleId)
  ELSE FHERaffleLocal_drawWinner_revert(sender, raffleId)

\* the revert reasons of enterRaffle(raffleId, ...) sent by sender, over all
\* amounts and proofs, in the deployed contract
enterRaffle_reverts(sender, raffleId) ==
  IF variant = "confidential"
  THEN { FHERaffle_enterRaffle_revert(sender, raffleId, proofValid) :
           proofValid \in BOOLEAN }
  ELSE { FHERaffleLocal_enterRaffle_revert(sender, raffleId, amount) :
           amount \in Amounts }

\* the RaffleDrawn events of a raffle
DrawnEvents(raffleId) ==
  { i \in 1 .. Len(events[raffleId]) : events[raffleId][i].name = "RaffleDrawn" }

\* the drawnAt of the RaffleDrawn events of a raffle
DrawnAt(raffleId) == { events[raffleId][i].drawnAt : i \in DrawnEvents(raffleId) }

----------------------------------------------------------------------------
(* C1 .. C10 *)

\* C1: in every reachable state of either contract, no raffle's entry
\* sequence holds two entries of the same participant.
C1_OneEntryPerParticipant ==
  \A raffleId \in RaffleKeys :
    \A i, j \in EntryIndexes(raffleId) :
      EntryAt(raffleId, i).participant = EntryAt(raffleId, j).participant => i = j

\* a raffle that holds an entry, is still open with room left, and whose
\* member would be turned away with "Already entered"
C1_Witness ==
  \E raffleId \in ExistingIds : \E sender \in Callers :
    /\ sender \in Participants(raffleId)
    /\ enterRaffle_reverts(sender, raffleId) = {"Already entered"}

\* C2: in every reachable state every raffle has currentEntries <= maxEntries.
C2_CurrentEntriesWithinMax ==
  \A raffleId \in ExistingIds :
    RaffleAt(raffleId).currentEntries <= RaffleAt(raffleId).maxEntries

\* a full raffle that is still open, which a caller outside it tries to enter
C2_Witness ==
  \E raffleId \in ExistingIds : \E sender \in Callers :
    /\ RaffleAt(raffleId).currentEntries = RaffleAt(raffleId).maxEntries
    /\ sender \notin Participants(raffleId)
    /\ enterRaffle_reverts(sender, raffleId) = {"Raffle is full"}

\* C3: the draw is a one-way transition: once a raffle is drawn, every later
\* step leaves isDrawn true, isActive false and winner as the draw set it.
C3_DrawIsOneWay ==
  [][ \A raffleId \in ExistingIds :
        RaffleAt(raffleId).isDrawn =>
          /\ _raffles'[raffleId + 1].isDrawn
          /\ ~_raffles'[raffleId + 1].isActive
          /\ _raffles'[raffleId + 1].winner = RaffleAt(raffleId).winner ]_vars

\* a raffle drawn in an earlier block than another raffle: creations,
\* entries and a draw have followed its draw
C3_Witness ==
  \E r1, r2 \in ExistingIds :
    /\ RaffleAt(r1).isDrawn /\ RaffleAt(r2).isDrawn
    /\ \E t1 \in DrawnAt(r1), t2 \in DrawnAt(r2) : t1 < t2

\* C4: after a successful draw, the creator's second drawWinner on the same
\* raffle fails with "Winner already drawn".
C4_SecondDrawAlreadyDrawn ==
  \A raffleId \in ExistingIds :
    RaffleAt(raffleId).isDrawn =>
      drawWinner_revert(RaffleAt(raffleId).creator, raffleId) = "Winner already drawn"

\* what the contracts do: the second draw fails on the isActive check
C4_SecondDrawNotActive ==
  \A raffleId \in ExistingIds :
    RaffleAt(raffleId).isDrawn =>
      drawWinner_revert(RaffleAt(raffleId).creator, raffleId) = "Raffle is not active"

\* the step that turns raffleId's isDrawn from false to true is a
\* drawWinner(raffleId) sent by the raffle's creator
DrawnByCreator(raffleId) ==
  (~RaffleAt(raffleId).isDrawn /\ _raffles'[raffleId + 1].isDrawn) =>
    tx' = Transaction("drawWinner", RaffleAt(raffleId).creator, raffleId)

\* drawWinner sent by anyone but the creator fails with "Only creator can draw"
NonCreatorRejected ==
  \A raffleId \in ExistingIds : \A sender \in Callers :
    sender # RaffleAt(raffleId).creator =>
      drawWinner_revert(sender, raffleId) = "Only creator can draw"

\* C5: for every existing raffle in every state, drawWinner sent by an
\* address other than the creator fails with "Only creator can draw", and
\* every step that draws a raffle is a call of its creator.
C5_OnlyCreatorDraws ==
  [][ /\ NonCreatorRejected
      /\ NonCreatorRejected'
      /\ \A raffleId \in ExistingIds : DrawnByCreator(raffleId) ]_vars

\* a raffle just drawn by its creator, which holds an entry of an address
\* other than the creator
C5_Witness ==
  \E raffleId \in ExistingIds : \E sender \in Participants(raffleId) :
    /\ RaffleAt(raffleId).isDrawn
    /\ tx = Transaction("drawWinner", RaffleAt(raffleId).creator, raffleId)
    /\ sender # RaffleAt(raffleId).creator

\* C6: before expireAt the creator's drawWinner on an active raffle fails
\* with "Raffle has not expired", full or not, and every raffle that is
\* drawn was drawn at a time >= its expireAt.
C6_NoDrawBeforeExpiry ==
  \A raffleId \in ExistingIds :
    /\ (RaffleAt(raffleId).isActive /\ now < RaffleAt(raffleId).expireAt) =>
         drawWinner_revert(RaffleAt(raffleId).creator, raffleId) = "Raffle has not expired"
    /\ RaffleAt(raffleId).isDrawn =>
         /\ DrawnAt(raffleId) # {}
         /\ \A t \in DrawnAt(raffleId) : t >= RaffleAt(raffleId).expireAt

\* a raffle drawn after its expireAt, beside a full raffle that has not
\* expired yet
C6_Witness ==
  \E r1, r2 \in ExistingIds :
    /\ RaffleAt(r1).isDrawn
    /\ \E t \in DrawnAt(r1) : t > RaffleAt(r1).expireAt
    /\ RaffleAt(r2).currentEntries = RaffleAt(r2).maxEntries
    /\ now < RaffleAt(r2).expireAt

\* C7: in every reachable state every raffle is active exactly when it is
\* not drawn (so isDrawn => ~isActive, and isActive from creation to draw).
C7_ActiveIffNotDrawn ==
  \A raffleId \in ExistingIds :
    RaffleAt(raffleId).isActive = ~RaffleAt(raffleId).isDrawn

\* a drawn raffle beside a raffle that is not drawn
C7_Witness ==
  \E r1, r2 \in ExistingIds :
    /\ RaffleAt(r1).isDrawn /\ ~RaffleAt(r1).isActive
    /\ ~RaffleAt(r2).isDrawn /\ RaffleAt(r2).isActive

\* C8: in every reachable state a raffle's winner is set (not the zero
\* address) exactly when the raffle is drawn.
C8_WinnerSetIffDrawn ==
  \A raffleId \in ExistingIds :
    (RaffleAt(raffleId).winner # ZeroAddress) = RaffleAt(raffleId).isDrawn

\* a raffle of the plaintext contract drawn by the highest-amount scan,
\* from entries of which the first holds the lowest accepted amount
C8_Witness ==
  \E raffleId \in ExistingIds :
    /\ variant = "plaintext"
    /\ RaffleAt(raffleId).isDrawn
    /\ Len(_entries[raffleId]) = 2
    /\ EntryAt(raffleId, 0).amount = RaffleAt(raffleId).entryFee
    /\ RaffleAt(raffleId).winner = HighestEntry(raffleId).winnerAddress

\* C9: the winner of a drawn raffle is the participant of one of that
\* raffle's own entries.
C9_WinnerIsOwnParticipant ==
  \A raffleId \in ExistingIds :
    RaffleAt(raffleId).isDrawn =>
      RaffleAt(raffleId).winner \in Participants(raffleId)

\* a drawn raffle beside another raffle that holds an entry of an address
\* with no entry in the drawn one
C9_Witness ==
  \E r1, r2 \in ExistingIds :
    /\ RaffleAt(r1).isDrawn
    /\ r1 # r2
    /\ Participants(r2) \ Participants(r1) # {}

\* C10 as stated: once expireAt has passed, enterRaffle on any existing
\* raffle by any caller fails with "Raffle has expired".
C10_ExpiredAlways ==
  \A raffleId \in ExistingIds : \A sender \in Callers :
    now >= RaffleAt(raffleId).expireAt =>
      enterRaffle_reverts(sender, raffleId) = {"Raffle has expired"}

\* once expireAt has passed, enterRaffle fails with "Raffle has expired" on
\* a raffle that is still active and with "Raffle is not active" on a drawn one
ExpiredOrNotActive ==
  \A raffleId \in ExistingIds : \A sender \in Callers :
    now >= RaffleAt(raffleId).expireAt =>
      enterRaffle_reverts(sender, raffleId) =
        IF RaffleAt(raffleId).isActive
        THEN {"Raffle has expired"} ELSE {"Raffle is not active"}

\* C10, amended: once expireAt has passed, enterRaffle by any caller fails
\* with "Raffle has expired" on every raffle that is still active, whatever
\* its remaining capacity (on a drawn raffle it fails with "Raffle is not
\* active"), and no step adds an entry to the raffle.
C10_ExpiredWhileActive ==
  [][ /\ ExpiredOrNotActive
      /\ ExpiredOrNotActive'
      /\ \A raffleId \in ExistingIds :
           now >= RaffleAt(raffleId).expireAt =>
             /\ _entries'[raffleId] = _entries[raffleId]
             /\ _raffles'[raffleId + 1].currentEntries
                  = RaffleAt(raffleId).currentEntries ]_vars

\* an active raffle past its expireAt with capacity left, which both a
\* member and an address outside it try to enter
C10_Witness ==
  \E raffleId \in ExistingIds :
    /\ RaffleAt(raffleId).isActive
    /\ now >= RaffleAt(raffleId).expireAt
    /\ RaffleAt(raffleId).currentEntries = 1
    /\ \A sender \in Callers :
         enterRaffle_reverts(sender, raffleId) = {"Raffle has expired"}

----------------------------------------------------------------------------
(* C11 .. C20 *)

Full(raffleId) ==
  RaffleAt(raffleId).currentEntries = RaffleAt(raffleId).maxEntries

\* the step is an enterRaffle(raffleId) of sender that went through
Entered(sender, raffleId) ==
  /\ tx' = Transaction("enterRaffle", sender, raffleId)
  /\ _entries'[raffleId] # _entries[raffleId]

\* C11 as stated: on every existing raffle with currentEntries = maxEntries,
\* enterRaffle by any caller fails with "Raffle is full".
C11_FullAlways ==
  \A raffleId \in ExistingIds : \A sender \in Callers :
    Full(raffleId) => enterRaffle_reverts(sender, raffleId) = {"Raffle is full"}

\* on a full raffle enterRaffle fails with the first violated precondition:
\* "Raffle is not active" once drawn, "Raffle has expired" once expired,
\* and "Raffle is full" otherwise
FullRejected ==
  \A raffleId \in ExistingIds : \A sender \in Callers :
    Full(raffleId) =>
      enterRaffle_reverts(sender, raffleId) =
        IF ~RaffleAt(raffleId).isActive THEN {"Raffle is not active"}
        ELSE IF now >= RaffleAt(raffleId).expireAt THEN {"Raffle has expired"}
        ELSE {"Raffle is full"}

\* C11, amended: on every existing raffle with currentEntries = maxEntries
\* that is still active and not expired, enterRaffle fails with "Raffle is
\* full", also for a caller that never entered it; once the raffle is
\* expired or drawn the call fails with "Raffle has expired" or "Raffle is
\* not active" instead; in each case no entry is added.
C11_FullWhileOpen ==
  [][ /\ FullRejected
      /\ FullRejected'
      /\ \A raffleId \in ExistingIds :
           Full(raffleId) =>
             /\ _entries'[raffleId] = _entries[raffleId]
             /\ _raffles'[raffleId + 1].currentEntries
                  = RaffleAt(raffleId).currentEntries ]_vars

\* a full raffle, active and not expired, that an address with no entry in
\* it tries to enter
C11_Witness ==
  \E raffleId \in ExistingIds : \E sender \in Callers :
    /\ Full(raffleId)
    /\ RaffleAt(raffleId).isActive
    /\ now < RaffleAt(raffleId).expireAt
    /\ ~hasEntered(raffleId, sender)
    /\ sender \notin Participants(raffleId)
    /\ enterRaffle_reverts(sender, raffleId) = {"Raffle is full"}

EnterOrder(sender, raffleId, last) ==
  IF raffleId \notin ExistingIds THEN "Invalid raffle ID"
  ELSE IF ~RaffleAt(raffleId).isActive THEN "Raffle is not active"
  ELSE IF now >= RaffleAt(raffleId).expireAt THEN "Raffle has expired"
  ELSE IF Full(raffleId) THEN "Raffle is full"
  ELSE IF hasEntered(raffleId, sender) THEN "Already entered"
  ELSE last

BelowMinimum(raffleId, amount) ==
  raffleId \in ExistingIds /\ amount < RaffleAt(raffleId).entryFee

\* C13: when several preconditions of enterRaffle are violated at once, the
\* failure reported is the first violated one in the order InvalidId,
\* NotActive, Expired, Full, DuplicateEntry, and only then InvalidCiphertext
\* (confidential) or BelowMinimum (plaintext).
C13_EnterOrder ==
  \A sender \in Callers : \A raffleId \in RaffleIds :
    /\ variant = "confidential" =>
         \A proofValid \in BOOLEAN :
           FHERaffle_enterRaffle_revert(sender, raffleId, proofValid) =
             EnterOrder(sender, raffleId,
                        IF proofValid THEN "ok" ELSE "InvalidCiphertext")
    /\ variant = "plaintext" =>
         \A amount \in Amounts :
           FHERaffleLocal_enterRaffle_revert(sender, raffleId, amount) =
             EnterOrder(sender, raffleId,
                        IF BelowMinimum(raffleId, amount)
                        THEN "Entry amount must be >= entry fee" ELSE "ok")

\* an active raffle that is expired and full, entered again by one of its
\* members with every amount or proof: three preconditions are violated at
\* once and "Raffle has expired" is what every call reports
C13_Witness ==
  \E raffleId \in ExistingIds : \E sender \in Callers :
    /\ RaffleAt(raffleId).isActive
    /\ now >= RaffleAt(raffleId).expireAt
    /\ Full(raffleId)
    /\ hasEntered(raffleId, sender)
    /\ enterRaffle_reverts(sender, raffleId) = {"Raffle has expired"}

\* C14 as stated, for the fifth of the six failures: AlreadyDrawn answers a
\* violated not-drawn precondition, which only a drawn raffle violates, so a
\* drawn raffle is where some caller's drawWinner fails with "Winner already
\* drawn".
C14_AlreadyDrawnReachable ==
  \A raffleId \in ExistingIds :
    RaffleAt(raffleId).isDrawn =>
      \E sender \in Callers :
        drawWinner_revert(sender, raffleId) = "Winner already drawn"

\* what drawWinner does: the first violated precondition in the order
\* InvalidId, Unauthorized, NotActive, NotExpired, NoEntries is reported,
\* a creator's call on an active, expired raffle without entries fails with
\* "No entries", and "Winner already drawn" is reported to nobody
C14_DrawOrderWithoutAlreadyDrawn ==
  \A sender \in Callers : \A raffleId \in RaffleIds :
    drawWinner_revert(sender, raffleId) =
      IF raffleId \notin ExistingIds THEN "Invalid raffle ID"
      ELSE IF sender # RaffleAt(raffleId).creator THEN "Only creator can draw"
      ELSE IF ~RaffleAt(raffleId).isActive THEN "Raffle is not active"
      ELSE IF now < RaffleAt(raffleId).expireAt THEN "Raffle has not expired"
      ELSE IF getEntryCount(raffleId) = 0 THEN "No entries"
      ELSE "ok"

\* the creator's call on an active, expired raffle that nobody entered
C14_NoEntriesReached ==
  \E raffleId \in ExistingIds :
    /\ RaffleAt(raffleId).isActive /\ ~RaffleAt(raffleId).isDrawn
    /\ now >= RaffleAt(raffleId).expireAt
    /\ getEntryCount(raffleId) = 0
    /\ drawWinner_revert(RaffleAt(raffleId).creator, raffleId) = "No entries"

\* the validation failure the stated order gives createRaffle
CreateOrder(prizeAmount, entryFee, maxEntries, durationHours) ==
  IF maxEntries < 2 THEN "Max entries must be at least 2"
  ELSE IF durationHours = 0 THEN "Duration must be positive"
  ELSE IF prizeAmount = 0 THEN "Prize amount must be positive"
  ELSE IF entryFee = 0 THEN "Entry fee must be positive"
  ELSE "none"

\* C15: createRaffle with maxEntries < 2, durationHours = 0, prizeAmount = 0
\* or entryFee = 0 fails with the first violated constraint in the order
\* maxEntries, durationHours, prizeAmount, entryFee: no such call can take a
\* step, so the raffle count and the storage stay as they are, and no stored
\* raffle violates a constraint.
C15_InvalidCreateRejected ==
  /\ \A prizeAmount \in PrizeAmounts : \A entryFee \in EntryFees :
       \A maxEntries \in MaxEntriesChoices : \A durationHours \in DurationChoices :
         CreateOrder(prizeAmount, entryFee, maxEntries, durationHours) # "none" =>
           /\ createRaffle_revert(prizeAmount, entryFee, maxEntries, durationHours)
                = CreateOrder(prizeAmount, entryFee, maxEntries, durationHours)
           /\ \A sender \in Creators : \A title \in Titles :
                \A description \in Descriptions :
                  ~ENABLED createRaffle(sender, title, description, prizeAmount,
                                        entryFee, maxEntries, durationHours)
  /\ \A raffleId \in ExistingIds :
       /\ RaffleAt(raffleId).maxEntries >= 2
       /\ RaffleAt(raffleId).expireAt > RaffleAt(raffleId).createdAt
       /\ RaffleAt(raffleId).prizeAmount > 0
       /\ RaffleAt(raffleId).entryFee > 0

\* one raffle exists and a second creation is possible, but a call that
\* violates all four constraints is turned away on maxEntries
C15_Witness ==
  /\ getRaffleCount = 1
  /\ ENABLED createRaffle("alice", "Test Raffle", "A test raffle", 5, 1, 2, 1)
  /\ ~ENABLED createRaffle("alice", "Test Raffle", "A test raffle", 0, 0, 1, 0)
  /\ createRaffle_revert(0, 0, 1, 0) = "Max entries must be at least 2"
  /\ createRaffle_revert(0, 0, 2, 0) = "Duration must be positive"
  /\ createRaffle_revert(0, 0, 2, 1) = "Prize amount must be positive"
  /\ createRaffle_revert(5, 0, 2, 1) = "Entry fee must be positive"

\* getRaffleMeta: the twelve values in the order they are returned
getRaffleMeta(raffleId) ==
  << RaffleAt(raffleId).creator, RaffleAt(raffleId).title,
     RaffleAt(raffleId).description, RaffleAt(raffleId).prizeAmount,
     RaffleAt(raffleId).entryFee, RaffleAt(raffleId).maxEntries,
     RaffleAt(raffleId).currentEntries, RaffleAt(raffleId).expireAt,
     RaffleAt(raffleId).isActive, RaffleAt(raffleId).isDrawn,
     RaffleAt(raffleId).winner, RaffleAt(raffleId).createdAt >>

ValidCreation(prizeAmount, entryFee, maxEntries, durationHours) ==
  maxEntries >= 2 /\ durationHours > 0 /\ prizeAmount > 0 /\ entryFee > 0

\* C16 as stated: for all valid creation inputs (maxEntries >= 2,
\* durationHours > 0, prizeAmount > 0, entryFee > 0) createRaffle succeeds
\* and the raffle it stores has creator = caller, the supplied title,
\* description, prizeAmount, entryFee and maxEntries, currentEntries = 0,
\* isActive, not isDrawn, no winner and createdAt = now.
C16_ValidCreateSucceeds ==
  \A prizeAmount \in PrizeAmounts : \A entryFee \in EntryFees :
    \A maxEntries \in MaxEntriesChoices : \A durationHours \in DurationChoices :
      ValidCreation(prizeAmount, entryFee, maxEntries, durationHours) =>
        /\ createRaffle_revert(prizeAmount, entryFee, maxEntries, durationHours) = "ok"
        /\ \A sender \in Creators : \A title \in Titles : \A description \in Descriptions :
             LET raffle == NewRaffle(sender, title, description, prizeAmount,
                                     entryFee, maxEntries, durationHours)
             IN /\ raffle.creator = sender
                /\ raffle.title = title
                /\ raffle.description = description
                /\ raffle.prizeAmount = prizeAmount
                /\ raffle.entryFee = entryFee
                /\ raffle.maxEntries = maxEntries
                /\ raffle.currentEntries = 0
                /\ raffle.isActive /\ ~raffle.isDrawn
                /\ raffle.winner = ZeroAddress
                /\ raffle.createdAt = now

\* what createRaffle does: valid inputs succeed unless durationHours * 3600
\* leaves uint32, and a creation that goes through stores the caller as
\* creator, supplied values, no entries, active, not drawn, no winner and
\* createdAt = now
C16_ValidCreateUnlessOverflow ==
  [][ /\ \A prizeAmount \in PrizeAmounts : \A entryFee \in EntryFees :
           \A maxEntries \in MaxEntriesChoices : \A durationHours \in DurationChoices :
             ValidCreation(prizeAmount, entryFee, maxEntries, durationHours) =>
               createRaffle_revert(prizeAmount, entryFee, maxEntries, durationHours)
                 = IF DurationOverflows(durationHours) THEN "Panic(0x11)" ELSE "ok"
      /\ \A raffleId \in RaffleKeys :
           raffleId = Len(_raffles) /\ Len(_raffles') # Len(_raffles) =>
             /\ getRaffleMeta(raffleId)'[1] = tx'.sender
             /\ getRaffleMeta(raffleId)'[2] \in Titles
             /\ getRaffleMeta(raffleId)'[2] = events'[raffleId][1].title
             /\ getRaffleMeta(raffleId)'[3] \in Descriptions
             /\ getRaffleMeta(raffleId)'[4] \in PrizeAmounts \ {0}
             /\ getRaffleMeta(raffleId)'[5] \in EntryFees \ {0}
             /\ getRaffleMeta(raffleId)'[6] \in MaxEntriesChoices \ {1}
             /\ getRaffleMeta(raffleId)'[7] = 0
             /\ getRaffleMeta(raffleId)'[9] = TRUE
             /\ getRaffleMeta(raffleId)'[10] = FALSE
             /\ getRaffleMeta(raffleId)'[11] = ZeroAddress
             /\ getRaffleMeta(raffleId)'[12] = now ]_vars

\* C17: raffle ids are dense and strictly increasing from 0: a createRaffle
\* that goes through creates the id equal to getRaffleCount before the
\* call and raises getRaffleCount by exactly one; no other step changes
\* getRaffleCount, which never decreases, and the raffles already created
\* keep their ids.
C17_DenseIds ==
  [][ /\ getRaffleCount' \in {getRaffleCount, getRaffleCount + 1}
      /\ getRaffleCount' = getRaffleCount + 1 <=>
           tx' # tx /\ tx'.function = "createRaffle"
      /\ getRaffleCount' = getRaffleCount + 1 =>
           /\ tx'.raffleId = getRaffleCount
           /\ Len(events'[getRaffleCount]) = 1
           /\ events'[getRaffleCount][1].name = "RaffleCreated"
           /\ events'[getRaffleCount][1].raffleId = getRaffleCount
      /\ \A raffleId \in ExistingIds :
           /\ events[raffleId] # << >>
           /\ events[raffleId][1].name = "RaffleCreated"
           /\ events[raffleId][1].raffleId = raffleId
           /\ events'[raffleId][1] = events[raffleId][1]
           /\ _raffles'[raffleId + 1].creator = RaffleAt(raffleId).creator
           /\ _raffles'[raffleId + 1].createdAt = RaffleAt(raffleId).createdAt
      /\ \A raffleId \in RaffleKeys \ ExistingIds :
           events[raffleId] = << >> /\ _entries[raffleId] = << >> ]_vars

\* two raffles have been created, the second one, with id 1, by the
\* latest transaction, and both have been used since their creation
C17_Witness ==
  /\ getRaffleCount = 2
  /\ tx = Transaction("createRaffle", tx.sender, 1)
  /\ events[0][1].raffleId = 0
  /\ events[1][1].raffleId = 1
  /\ getEntryCount(0) > 0

\* C18: in the plaintext variant a draw sets winner to the participant of
\* the entry with the highest amount, and among entries that tie for the
\* highest amount to the participant of the earliest one.
C18_HighestEarliestWins ==
  variant = "plaintext" =>
    \A raffleId \in ExistingIds :
      RaffleAt(raffleId).isDrawn =>
        \E i \in EntryIndexes(raffleId) :
          /\ RaffleAt(raffleId).winner = EntryAt(raffleId, i).participant
          /\ \A j \in EntryIndexes(raffleId) :
               /\ EntryAt(raffleId, j).amount <= EntryAt(raffleId, i).amount
               /\ j < i =>
                    EntryAt(raffleId, j).amount < EntryAt(raffleId, i).amount

\* a plaintext raffle drawn over two entries of the same amount: the
\* first entrant has won
C18_Witness ==
  /\ variant = "plaintext"
  /\ \E raffleId \in ExistingIds :
       /\ RaffleAt(raffleId).isDrawn
       /\ getEntryCount(raffleId) = 2
       /\ EntryAt(raffleId, 0).amount = EntryAt(raffleId, 1).amount
       /\ RaffleAt(raffleId).winner = EntryAt(raffleId, 0).participant
       /\ RaffleAt(raffleId).winner # EntryAt(raffleId, 1).participant

\* a plaintext raffle drawn over a lower entry followed by a higher one:
\* the second entrant has won
C18_LaterHigherReached ==
  /\ variant = "plaintext"
  /\ \E raffleId \in ExistingIds :
       /\ RaffleAt(raffleId).isDrawn
       /\ getEntryCount(raffleId) = 2
       /\ EntryAt(raffleId, 0).amount < EntryAt(raffleId, 1).amount
       /\ RaffleAt(raffleId).winner = EntryAt(raffleId, 1).participant

\* every precondition of enterRaffle before the variant's last check holds
OtherPreconditionsHold(sender, raffleId) ==
  /\ raffleId \in ExistingIds
  /\ RaffleAt(raffleId).isActive
  /\ now < RaffleAt(raffleId).expireAt
  /\ RaffleAt(raffleId).currentEntries < RaffleAt(raffleId).maxEntries
  /\ ~hasEntered(raffleId, sender)

\* plaintext enterRaffle, the other preconditions holding, succeeds exactly
\* when amount >= entryFee and fails with BelowMinimum, taking no step, below
MinimumDecides ==
  variant = "plaintext" =>
    \A sender \in Callers : \A raffleId \in ExistingIds : \A amount \in Amounts :
      OtherPreconditionsHold(sender, raffleId) =>
        IF amount >= RaffleAt(raffleId).entryFee
        THEN /\ FHERaffleLocal_enterRaffle_revert(sender, raffleId, amount) = "ok"
             /\ TotalEntries < MaxEntriesTotal =>
                  \A value \in Values :
                    ENABLED FHERaffleLocal_enterRaffle(sender, raffleId, amount, value)
        ELSE /\ FHERaffleLocal_enterRaffle_revert(sender, raffleId, amount)
                  = "Entry amount must be >= entry fee"
             /\ \A value \in Values :
                  ~ENABLED FHERaffleLocal_enterRaffle(sender, raffleId, amount, value)

\* C19: in the plaintext variant, when all other preconditions hold,
\* enterRaffle succeeds if and only if amount >= entryFee: an amount below
\* the fee fails with BelowMinimum and changes nothing, an amount equal to
\* the fee succeeds, and a call that succeeds raises currentEntries by one
\* and stores an amount of at least the fee.
C19_MinimumEnforced ==
  [][ /\ MinimumDecides
      /\ MinimumDecides'
      /\ variant = "plaintext" =>
           \A sender \in Callers : \A raffleId \in ExistingIds :
             Entered(sender, raffleId) =>
               /\ OtherPreconditionsHold(sender, raffleId)
               /\ _raffles'[raffleId + 1].currentEntries
                    = RaffleAt(raffleId).currentEntries + 1
               /\ _entries'[raffleId][Len(_entries'[raffleId])].amount
                    >= RaffleAt(raffleId).entryFee ]_vars

\* a plaintext raffle just entered with an amount equal to its entry fee,
\* while another address offering less is turned away with BelowMinimum
C19_Witness ==
  /\ variant = "plaintext"
  /\ \E raffleId \in ExistingIds : \E sender, other \in Callers :
       /\ tx = Transaction("enterRaffle", sender, raffleId)
       /\ RaffleAt(raffleId).currentEntries = 1
       /\ EntryAt(raffleId, 0).participant = sender
       /\ EntryAt(raffleId, 0).amount = RaffleAt(raffleId).entryFee
       /\ OtherPreconditionsHold(other, raffleId)
       /\ FHERaffleLocal_enterRaffle_revert(other, raffleId, 0)
            = "Entry amount must be >= entry fee"

----------------------------------------------------------------------------
(* C21 .. C30 *)

\* the addresses granted decrypt capability on the amount of entry entryIndex
Holders(raffleId, entryIndex) ==
  { holder \in Callers \cup {ContractAddress, ZeroAddress} :
      <<raffleId, entryIndex, holder>> \in acl }

GrantsAsStored ==
  /\ variant = "plaintext" => acl = {}
  /\ \A grant \in acl :
       grant[1] \in ExistingIds /\ grant[2] \in EntryIndexes(grant[1])
  /\ variant = "confidential" =>
       \A raffleId \in ExistingIds : \A i \in EntryIndexes(raffleId) :
         Holders(raffleId, i) = {ContractAddress, EntryAt(raffleId, i).participant}

\* C21: in the confidential variant the addresses granted decrypt
\* capability on a stored entry's amount are exactly the contract and the
\* entry's participant; both grants are made by the enterRaffle that stores
\* the entry and no other step grants anything, so neither the creator, nor
\* another participant, nor the winner ever holds a grant on it.
C21_GrantsOnlyContractAndParticipant ==
  [][ /\ GrantsAsStored
      /\ GrantsAsStored'
      /\ \A raffleId \in ExistingIds : \A sender \in Callers :
           Entered(sender, raffleId) /\ variant = "confidential" =>
             acl' = acl \cup { <<raffleId, getEntryCount(raffleId), ContractAddress>>,
                               <<raffleId, getEntryCount(raffleId), sender>> }
      /\ (\A raffleId \in ExistingIds : _entries'[raffleId] = _entries[raffleId])
           => acl' = acl ]_vars

\* a drawn confidential raffle with two entries made by neither its creator
\* nor each other: each amount is held by the contract and its participant
\* only, the winner holding none on the other's
C21_Witness ==
  /\ variant = "confidential"
  /\ \E raffleId \in ExistingIds :
       /\ RaffleAt(raffleId).isDrawn
       /\ getEntryCount(raffleId) = 2
       /\ RaffleAt(raffleId).creator \notin Participants(raffleId)
       /\ RaffleAt(raffleId).winner = EntryAt(raffleId, 0).participant
       /\ Holders(raffleId, 1) = {ContractAddress, EntryAt(raffleId, 1).participant}
       /\ RaffleAt(raffleId).winner \notin Holders(raffleId, 1)

\* an entry sequence without its amounts
Erased(entries) ==
  [ i \in 1 .. Len(entries) |->
      [ participant |-> entries[i].participant, createdAt |-> entries[i].createdAt ] ]

\* what the ledger shows of the confidential contract apart from the
\* amounts behind the stored handles
Observable ==
  [ raffles |-> _raffles,
    entries |-> [ raffleId \in RaffleKeys |-> Erased(_entries[raffleId]) ],
    members |-> _hasEntered,
    grants  |-> acl,
    log     |-> events,
    clock   |-> now ]

RECURSIVE ObservedEntriesUpTo(_, _)
ObservedEntriesUpTo(o, k) ==
  IF k < 0 THEN 0 ELSE Len(o.entries[k]) + ObservedEntriesUpTo(o, k - 1)

\* the outcome of enterRaffle as a function of the observation alone
ObservedEnter(o, sender, raffleId, proofValid) ==
  IF raffleId >= Len(o.raffles) THEN "Invalid raffle ID"
  ELSE IF ~o.raffles[raffleId + 1].isActive THEN "Raffle is not active"
  ELSE IF o.clock >= o.raffles[raffleId + 1].expireAt THEN "Raffle has expired"
  ELSE IF o.raffles[raffleId + 1].currentEntries >= o.raffles[raffleId + 1].maxEntries
       THEN "Raffle is full"
  ELSE IF o.members[raffleId][sender] THEN "Already entered"
  ELSE IF ~proofValid THEN "InvalidCiphertext"
  ELSE "ok"

\* the observation after an enterRaffle that went through
AfterEnter(o, sender, raffleId) ==
  [ o EXCEPT
      !.raffles[raffleId + 1].currentEntries = @ + 1,
      !.entries[raffleId] =
         Append(@, [ participant |-> sender, createdAt |-> o.clock ]),
      !.members[raffleId][sender] = TRUE,
      !.grants = @ \cup { <<raffleId, Len(o.entries[raffleId]), ContractAddress>>,
                          <<raffleId, Len(o.entries[raffleId]), sender>> },
      !.log[raffleId] =
         Append(@, [ name |-> "EntrySubmitted", raffleId |-> raffleId,
                     participant |-> sender, createdAt |-> o.clock ]) ]

\* the outcome of drawWinner as a function of the observation alone
ObservedDraw(o, sender, raffleId) ==
  IF raffleId >= Len(o.raffles) THEN "Invalid raffle ID"
  ELSE IF sender # o.raffles[raffleId + 1].creator THEN "Only creator can draw"
  ELSE IF ~o.raffles[raffleId + 1].isActive THEN "Raffle is not active"
  ELSE IF o.clock < o.raffles[raffleId + 1].expireAt THEN "Raffle has not expired"
  ELSE IF o.raffles[raffleId + 1].isDrawn THEN "Winner already drawn"
  ELSE IF Len(o.entries[raffleId]) = 0 THEN "No entries"
  ELSE "ok"

\* the observation after a drawWinner that went through with block
\* entropy digest
AfterDraw(o, raffleId, digest) ==
  LET winnerAddress ==
        o.entries[raffleId][(digest % Len(o.entries[raffleId])) + 1].participant
  IN  [ o EXCEPT
          !.raffles[raffleId + 1].winner = winnerAddress,
          !.raffles[raffleId + 1].isDrawn = TRUE,
          !.raffles[raffleId + 1].isActive = FALSE,
          !.log[raffleId] =
             Append(@, [ name |-> "RaffleDrawn", raffleId |-> raffleId,
                         winner |-> winnerAddress, drawnAt |-> o.clock ]) ]

\* C22: in the confidential variant what the ledger shows apart from the
\* stored handles does not depend on the entry amounts: whether an
\* enterRaffle or a drawWinner succeeds or fails, and with which failure, is
\* a function of the observation (raffles, entries without amounts,
\* membership, grants, events, clock) and of the call's caller, raffle,
\* proof and block entropy, and so is the observation after the call;
\* no event carries an amount. Two runs of the same calls that differ in
\* the hidden amounts therefore show the same outcomes, events, metadata
\* and winners.
C22_AmountsNotObservable ==
  variant = "confidential" =>
    /\ \A raffleId \in ExistingIds : \A i \in DOMAIN events[raffleId] :
         DOMAIN events[raffleId][i] \cap {"amount", "totalEntryAmount"} = {}
    /\ \A sender \in Callers : \A raffleId \in RaffleIds :
         /\ \A proofValid \in BOOLEAN :
              /\ FHERaffle_enterRaffle_revert(sender, raffleId, proofValid)
                   = ObservedEnter(Observable, sender, raffleId, proofValid)
              /\ \A hidden \in HiddenAmounts :
                   IF /\ ObservedEnter(Observable, sender, raffleId, proofValid) = "ok"
                      /\ ObservedEntriesUpTo(Observable, MaxRaffles - 1) < MaxEntriesTotal
                   THEN ENABLED ( /\ FHERaffle_enterRaffle(sender, raffleId, hidden, proofValid)
                                  /\ Observable' = AfterEnter(Observable, sender, raffleId) )
                   ELSE ~ENABLED FHERaffle_enterRaffle(sender, raffleId, hidden, proofValid)
         /\ FHERaffle_drawWinner_revert(sender, raffleId)
              = ObservedDraw(Observable, sender, raffleId)
         /\ \A digest \in Digests :
              IF ObservedDraw(Observable, sender, raffleId) = "ok"
              THEN ENABLED ( /\ FHERaffle_drawWinner(sender, raffleId, digest)
                             /\ Observable' = AfterDraw(Observable, raffleId, digest) )
              ELSE ~ENABLED FHERaffle_drawWinner(sender, raffleId, digest)

\* a drawn confidential raffle whose two entries hide different amounts and
\* whose winner is the one that hides the lower amount
C22_Witness ==
  /\ variant = "confidential"
  /\ \E raffleId \in ExistingIds :
       /\ RaffleAt(raffleId).isDrawn
       /\ getEntryCount(raffleId) = 2
       /\ EntryAt(raffleId, 0).amount < EntryAt(raffleId, 1).amount
       /\ RaffleAt(raffleId).winner = EntryAt(raffleId, 0).participant
       /\ Len(events[raffleId]) = 4

\* C23: hasEntered(raffleId, address) is false until that address's first
\* enterRaffle on that raffle goes through, true from then on, and changed
\* by nothing else: not by a step on another raffle, not by another
\* address's entry.
C23_HasEnteredOwnEntryOnly ==
  [][ \A raffleId \in RaffleKeys : \A participant \in Callers :
        /\ raffleId \notin ExistingIds => ~hasEntered(raffleId, participant)
        /\ hasEntered(raffleId, participant) => hasEntered(raffleId, participant)'
        /\ (~hasEntered(raffleId, participant) /\ hasEntered(raffleId, participant)')
             <=> Entered(participant, raffleId)
        /\ (getRaffleCount' # getRaffleCount /\ raffleId = getRaffleCount)
             => ~hasEntered(raffleId, participant)' ]_vars

\* two raffles, each with a member that is not a member of the other, the
\* latest of them having just entered
C23_Witness ==
  \E first, second \in Callers :
    /\ getRaffleCount = 2
    /\ hasEntered(0, first) /\ ~hasEntered(1, first)
    /\ hasEntered(1, second) /\ ~hasEntered(0, second)
    /\ tx = Transaction("enterRaffle", second, 1)

Drawn(sender, raffleId) ==
  /\ tx' = Transaction("drawWinner", sender, raffleId)
  /\ _raffles'[raffleId + 1] # _raffles[raffleId + 1]

\* raffle raffleId keeps its record, entries, members and events
RaffleUntouched(raffleId) ==
  /\ raffleId \in ExistingIds => _raffles'[raffleId + 1] = _raffles[raffleId + 1]
  /\ _entries'[raffleId] = _entries[raffleId]
  /\ _hasEntered'[raffleId] = _hasEntered[raffleId]
  /\ events'[raffleId] = events[raffleId]

\* C25: a raffle record is changed only by entering and by the draw: an
\* enterRaffle(r) that goes through changes of r's record only
\* currentEntries, a drawWinner(r) that goes through only winner, isDrawn
\* and isActive, leaving r's entries and members alone; createRaffle changes
\* no existing raffle; creator, title, description, prizeAmount, entryFee,
\* maxEntries, expireAt and createdAt never change; and a step on raffle r
\* changes nothing of any other raffle.
C25_RaffleFrame ==
  [][ \A raffleId \in RaffleKeys :
        /\ raffleId \in ExistingIds =>
             /\ _raffles'[raffleId + 1].creator = RaffleAt(raffleId).creator
             /\ _raffles'[raffleId + 1].title = RaffleAt(raffleId).title
             /\ _raffles'[raffleId + 1].description = RaffleAt(raffleId).description
             /\ _raffles'[raffleId + 1].prizeAmount = RaffleAt(raffleId).prizeAmount
             /\ _raffles'[raffleId + 1].entryFee = RaffleAt(raffleId).entryFee
             /\ _raffles'[raffleId + 1].maxEntries = RaffleAt(raffleId).maxEntries
             /\ _raffles'[raffleId + 1].expireAt = RaffleAt(raffleId).expireAt
             /\ _raffles'[raffleId + 1].createdAt = RaffleAt(raffleId).createdAt
        /\ \A sender \in Callers :
             /\ Entered(sender, raffleId) =>
                  /\ _raffles'[raffleId + 1] =
                       [RaffleAt(raffleId) EXCEPT !.currentEntries = @ + 1]
                  /\ \A other \in RaffleKeys \ {raffleId} : RaffleUntouched(other)
             /\ Drawn(sender, raffleId) =>
                  /\ _raffles'[raffleId + 1] =
                       [RaffleAt(raffleId) EXCEPT
                          !.winner = _raffles'[raffleId + 1].winner,
                          !.isDrawn = TRUE, !.isActive = FALSE]
                  /\ _entries'[raffleId] = _entries[raffleId]
                  /\ _hasEntered'[raffleId] = _hasEntered[raffleId]
                  /\ \A other \in RaffleKeys \ {raffleId} : RaffleUntouched(other)
        /\ (getRaffleCount' # getRaffleCount /\ raffleId \in ExistingIds)
             => RaffleUntouched(raffleId)
        /\ (raffleId \in ExistingIds /\ _raffles'[raffleId + 1] # _raffles[raffleId + 1])
             => \E sender \in Callers :
                  Entered(sender, raffleId) \/ Drawn(sender, raffleId) ]_vars

\* raffle 0 has just been drawn, its counter still that of its entries,
\* while raffle 1 is active and holds an entry
C25_Witness ==
  /\ getRaffleCount = 2
  /\ tx = Transaction("drawWinner", RaffleAt(0).creator, 0)
  /\ RaffleAt(0).isDrawn
  /\ RaffleAt(0).currentEntries = getEntryCount(0)
  /\ RaffleAt(1).isActive
  /\ getEntryCount(1) >= 1

\* getEntry: (amount, participant, createdAt) of the entry at entryIndex
getEntry(raffleId, entryIndex) ==
  << EntryAt(raffleId, entryIndex).amount,
     EntryAt(raffleId, entryIndex).participant,
     EntryAt(raffleId, entryIndex).createdAt >>

\* C26: each raffle's entry sequence is append-only and in submission
\* order: what getEntry(r, i) returns it returns after every later step,
\* an enterRaffle that goes through appends exactly one entry, of the
\* caller and of the current time, at index getEntryCount(r), and nothing
\* else changes the sequence.
C26_EntriesAppendOnly ==
  [][ \A raffleId \in RaffleKeys :
        /\ \A i \in EntryIndexes(raffleId) :
             /\ i < Len(_entries'[raffleId])
             /\ getEntry(raffleId, i)' = getEntry(raffleId, i)
        /\ \A i, j \in EntryIndexes(raffleId) :
             i < j => EntryAt(raffleId, i).createdAt <= EntryAt(raffleId, j).createdAt
        /\ \A sender \in Callers :
             Entered(sender, raffleId) =>
               /\ Len(_entries'[raffleId]) = getEntryCount(raffleId) + 1
               /\ \A i \in {getEntryCount(raffleId)} :
                    /\ getEntry(raffleId, i)'[2] = sender
                    /\ getEntry(raffleId, i)'[3] = now
        /\ _entries'[raffleId] # _entries[raffleId] =>
             \E sender \in Callers : Entered(sender, raffleId) ]_vars

\* a raffle with two entries, the second one just made
C26_Witness ==
  \E raffleId \in ExistingIds :
    /\ getEntryCount(raffleId) = 2
    /\ tx = Transaction("enterRaffle", getEntry(raffleId, 1)[2], raffleId)
    /\ getEntry(raffleId, 0)[2] # getEntry(raffleId, 1)[2]

\* C27: in every reachable state, for every raffle and address,
\* hasEntered is true exactly when the raffle's entry sequence holds one
\* entry of that address, and false exactly when it holds none.
C27_MembersMatchEntries ==
  \A raffleId \in RaffleKeys : \A participant \in Callers \cup {ZeroAddress} :
    Cardinality({ i \in EntryIndexes(raffleId) :
                    EntryAt(raffleId, i).participant = participant })
      = IF participant \in Callers /\ hasEntered(raffleId, participant) THEN 1 ELSE 0

\* a raffle with two members and an address that is not one
C27_Witness ==
  \E raffleId \in ExistingIds : \E first, second, third \in Callers :
    /\ hasEntered(raffleId, first) /\ hasEntered(raffleId, second)
    /\ first # second
    /\ ~hasEntered(raffleId, third)
    /\ Participants(raffleId) = {first, second}

\* a drawWinner on raffle raffleId, in either contract
DrawOf(raffleId) ==
  \E sender \in Callers :
    \/ \E digest \in Digests : FHERaffle_drawWinner(sender, raffleId, digest)
    \/ FHERaffleLocal_drawWinner(sender, raffleId)

\* the clock keeps advancing while the model lets it, and a drawWinner that
\* stays possible on a raffle is eventually made
FairSpec ==
  /\ Spec
  /\ WF_vars(MineBlock)
  /\ \A raffleId \in RaffleKeys : WF_vars(DrawOf(raffleId))

ExpiredUndrawn(raffleId) ==
  /\ raffleId \in ExistingIds
  /\ ~RaffleAt(raffleId).isDrawn
  /\ now >= RaffleAt(raffleId).expireAt

IsDrawn(raffleId) ==
  raffleId \in ExistingIds /\ RaffleAt(raffleId).isDrawn

\* an undrawn raffle past expireAt that nobody entered
Stuck(raffleId) ==
  ExpiredUndrawn(raffleId) /\ getEntryCount(raffleId) = 0

\* C28 as stated: from every reachable state of an undrawn raffle, once the
\* clock has reached expireAt the creator's drawWinner succeeds.
C28_ExpiredDrawSucceeds ==
  \A raffleId \in RaffleKeys :
    ExpiredUndrawn(raffleId) =>
      drawWinner_revert(RaffleAt(raffleId).creator, raffleId) = "ok"

\* C28, amended: from every reachable state of an undrawn raffle that holds
\* at least one entry, once the clock has reached expireAt the creator's
\* drawWinner succeeds, so under weak fairness of the clock and of
\* drawWinner such a raffle is eventually drawn; a raffle that reaches
\* expireAt without an entry stays undrawn for ever: the creator's
\* drawWinner fails with "No entries" and nobody can enter it any more.
C28_EnteredRaffleEventuallyDrawn ==
  /\ \A raffleId \in RaffleKeys :
       (ExpiredUndrawn(raffleId) /\ getEntryCount(raffleId) > 0) ~> IsDrawn(raffleId)
  /\ [][ \A raffleId \in RaffleKeys :
           /\ (ExpiredUndrawn(raffleId) /\ getEntryCount(raffleId) > 0) =>
                drawWinner_revert(RaffleAt(raffleId).creator, raffleId) = "ok"
           /\ Stuck(raffleId) =>
                /\ drawWinner_revert(RaffleAt(raffleId).creator, raffleId) = "No entries"
                /\ \A sender \in Callers :
                     enterRaffle_reverts(sender, raffleId) = {"Raffle has expired"}
                /\ Stuck(raffleId)' ]_vars

\* one raffle drawn by its creator after its expiry, over its entries,
\* next to one that expired without an entry
C28_Witness ==
  \E drawn, empty \in ExistingIds :
    /\ IsDrawn(drawn)
    /\ tx = Transaction("drawWinner", RaffleAt(drawn).creator, drawn)
    /\ getEntryCount(drawn) > 0
    /\ now >= RaffleAt(drawn).expireAt
    /\ Stuck(empty)

\* the require of the queries that take a raffleId: getRaffleMeta,
\* getPrizeAmount, getEntryFee, getEntryCount, hasEntered
getRaffleMeta_revert(raffleId) ==
  IF ~(raffleId < Len(_raffles)) THEN "Invalid raffle ID" ELSE "ok"

getPrizeAmount_revert(raffleId) ==
  IF ~(raffleId < Len(_raffles)) THEN "Invalid raffle ID" ELSE "ok"

getEntryFee_revert(raffleId) ==
  IF ~(raffleId < Len(_raffles)) THEN "Invalid raffle ID" ELSE "ok"

getEntryCount_revert(raffleId) ==
  IF ~(raffleId < Len(_raffles)) THEN "Invalid raffle ID" ELSE "ok"

hasEntered_revert(raffleId) ==
  IF ~(raffleId < Len(_raffles)) THEN "Invalid raffle ID" ELSE "ok"

\* the index check written with <= in place of <
getEntry_revert_indexOffByOne(raffleId, entryIndex) ==
  IF ~(raffleId < Len(_raffles)) THEN "Invalid raffle ID"
  ELSE IF ~(entryIndex <= Len(_entries[raffleId])) THEN "Invalid entry index"
  ELSE "ok"

\* the two requires of getEntry
getEntry_revert(raffleId, entryIndex) ==
  IF ~(raffleId < Len(_raffles)) THEN "Invalid raffle ID"
  ELSE IF ~(entryIndex < Len(_entries[raffleId])) THEN "Invalid entry index"
  ELSE "ok"

getPrizeAmount(raffleId) == RaffleAt(raffleId).prizeAmount

getEntryFee(raffleId) == RaffleAt(raffleId).entryFee

EntryIndexChoices == 0 .. MaxEntriesTotal

\* C29: the queries are functions of the state and change none of it; each
\* query that takes a raffleId fails with InvalidId exactly when raffleId
\* >= getRaffleCount, and getEntry fails besides with InvalidIndex exactly
\* when entryIndex >= getEntryCount(raffleId); a query that does not fail
\* returns what is stored.
C29_QueriesRangeChecked ==
  \A raffleId \in RaffleIds :
    LET expected == IF raffleId >= getRaffleCount THEN "Invalid raffle ID" ELSE "ok"
    IN  /\ getRaffleMeta_revert(raffleId) = expected
        /\ getPrizeAmount_revert(raffleId) = expected
        /\ getEntryFee_revert(raffleId) = expected
        /\ getEntryCount_revert(raffleId) = expected
        /\ hasEntered_revert(raffleId) = expected
        /\ \A entryIndex \in EntryIndexChoices :
             getEntry_revert(raffleId, entryIndex) =
               IF raffleId >= getRaffleCount THEN "Invalid raffle ID"
               ELSE IF entryIndex >= getEntryCount(raffleId) THEN "Invalid entry index"
               ELSE "ok"
        /\ expected = "ok" =>
             /\ getRaffleMeta(raffleId)[4] = getPrizeAmount(raffleId)
             /\ getRaffleMeta(raffleId)[5] = getEntryFee(raffleId)
             /\ getRaffleMeta(raffleId)[7] = getEntryCount(raffleId)
             /\ \A entryIndex \in EntryIndexes(raffleId) :
                  hasEntered(raffleId, getEntry(raffleId, entryIndex)[2])

\* one raffle with one entry: the queries answer for raffle 0 and entry 0
\* and fail for raffle 1 and for entry 1
C29_Witness ==
  /\ getRaffleCount = 1
  /\ getEntryCount(0) = 1
  /\ getRaffleMeta_revert(0) = "ok" /\ getRaffleMeta_revert(1) = "Invalid raffle ID"
  /\ getEntry_revert(0, 0) = "ok"
  /\ getEntry_revert(0, 1) = "Invalid entry index"
  /\ getEntry_revert(1, 0) = "Invalid raffle ID"

Members(raffleId) == { participant \in Callers : hasEntered(raffleId, participant) }

\* entry list, membership set and currentEntries of every raffle agree
LedgerAgrees ==
  \A raffleId \in ExistingIds :
    /\ RaffleAt(raffleId).currentEntries = getEntryCount(raffleId)
    /\ Cardinality(Members(raffleId)) = getEntryCount(raffleId)
    /\ Members(raffleId) = Participants(raffleId)
    /\ getEntryCount(raffleId) <= RaffleAt(raffleId).maxEntries

\* C30: calls submitted together are executed one after the other, each a
\* whole step: every state a call or query can observe has entry lists,
\* membership sets and currentEntries in agreement; an enterRaffle goes
\* through only from a state that admits it, so at most maxEntries callers
\* get in and a non-member left out is told "Raffle is full", "Raffle has
\* expired" or "Raffle is not active"; and no state admits both an entry
\* into a raffle and its draw, so an enterRaffle racing with drawWinner
\* around expireAt has the same outcome in either order.
C30_SerialOutcomes ==
  [][ /\ LedgerAgrees
      /\ LedgerAgrees'
      /\ \A raffleId \in ExistingIds : \A sender \in Callers :
           /\ Entered(sender, raffleId) =>
                /\ OtherPreconditionsHold(sender, raffleId)
                /\ "ok" \in enterRaffle_reverts(sender, raffleId)
           /\ Drawn(sender, raffleId) => drawWinner_revert(sender, raffleId) = "ok"
           /\ ~hasEntered(raffleId, sender) =>
                enterRaffle_reverts(sender, raffleId) \subseteq
                  IF OtherPreconditionsHold(sender, raffleId)
                  THEN {"ok", "InvalidCiphertext", "Entry amount must be >= entry fee"}
                  ELSE {"Raffle is full", "Raffle has expired", "Raffle is not active"}
           /\ ~( /\ "ok" \in enterRaffle_reverts(sender, raffleId)
                 /\ drawWinner_revert(RaffleAt(raffleId).creator, raffleId) = "ok" ) ]_vars

\* three callers went for the two places of a raffle: two are in, by the
\* latest transaction the raffle became full, and the third is told so
C30_Witness ==
  \E raffleId \in ExistingIds : \E sender \in Callers :
    /\ RaffleAt(raffleId).maxEntries = 2
    /\ Cardinality(Members(raffleId)) = 2
    /\ tx.function = "enterRaffle" /\ tx.raffleId = raffleId
    /\ tx.sender \in Members(raffleId)
    /\ sender \notin Members(raffleId)
    /\ enterRaffle_reverts(sender, raffleId) = {"Raffle is full"}

----------------------------------------------------------------------------
(* C31 .. C40 *)

\* C31: in every reachable state getRaffleMeta's currentEntries equals
\* getEntryCount for every raffle: the counter goes up by one on each
\* enterRaffle that goes through, together with the entry sequence, and is
\* changed by no other step.
C31_CounterIsEntryCount ==
  [][ \A raffleId \in ExistingIds :
        /\ getRaffleMeta(raffleId)[7] = getEntryCount(raffleId)
        /\ getRaffleMeta(raffleId)'[7] = getEntryCount(raffleId)'
        /\ getRaffleMeta(raffleId)'[7] =
             IF \E sender \in Callers : Entered(sender, raffleId)
             THEN getRaffleMeta(raffleId)[7] + 1
             ELSE getRaffleMeta(raffleId)[7] ]_vars

\* a raffle entered twice and then drawn: its counter is 2 and so is its
\* entry count
C31_Witness ==
  \E raffleId \in ExistingIds :
    /\ getRaffleMeta(raffleId)[7] = 2
    /\ getEntryCount(raffleId) = 2
    /\ getRaffleMeta(raffleId)[10]

\* C32 as stated: for every durationHours from 1 on, the other inputs being
\* valid, createRaffle succeeds and stores expireAt = now +
\* durationHours * 3600.
C32_EveryDurationSucceeds ==
  \A durationHours \in DurationChoices \ {0} :
    \A prizeAmount \in PrizeAmounts \ {0} : \A entryFee \in EntryFees \ {0} :
      \A maxEntries \in MaxEntriesChoices \ {1} :
        /\ createRaffle_revert(prizeAmount, entryFee, maxEntries, durationHours) = "ok"
        /\ \A sender \in Creators : \A title \in Titles : \A description \in Descriptions :
             NewRaffle(sender, title, description, prizeAmount, entryFee,
                       maxEntries, durationHours).expireAt
               = now + durationHours * SecondsPerHour

\* what createRaffle does: the uint32 product fits up to 1193046 hours and
\* panics from 1193047 hours on, and a raffle that is created holds
\* expireAt = createdAt + durationHours * 3600 for a duration that fits
C32_ExactUnlessOverflow ==
  /\ ~DurationOverflows(1193046)
  /\ DurationOverflows(1193047)
  /\ \A prizeAmount \in PrizeAmounts \ {0} : \A entryFee \in EntryFees \ {0} :
       \A maxEntries \in MaxEntriesChoices \ {1} :
         /\ createRaffle_revert(prizeAmount, entryFee, maxEntries, 1193047) = "Panic(0x11)"
         /\ createRaffle_revert(prizeAmount, entryFee, maxEntries, 1) = "ok"
  /\ \A raffleId \in ExistingIds :
       \E durationHours \in DurationChoices \ {0} :
         /\ ~DurationOverflows(durationHours)
         /\ RaffleAt(raffleId).expireAt
              = RaffleAt(raffleId).createdAt + durationHours * SecondsPerHour

\* the expiry check of enterRaffle passes on an undrawn raffle: no caller
\* is told "Raffle has expired"
EntryWindowOpen(raffleId) ==
  \A sender \in Callers : "Raffle has expired" \notin enterRaffle_reverts(sender, raffleId)

\* the expiry check of drawWinner passes on an undrawn raffle: its creator
\* is not told "Raffle has not expired"
DrawWindowOpen(raffleId) ==
  drawWinner_revert(RaffleAt(raffleId).creator, raffleId) # "Raffle has not expired"

\* C33: for every undrawn raffle and every clock value exactly one of the
\* two windows is open: the expiry check of enterRaffle passes exactly when
\* now < expireAt, that of drawWinner exactly when now >= expireAt; at now =
\* expireAt every entry fails with "Raffle has expired" and the draw is
\* let past its expiry check.
C33_ExactlyOneWindow ==
  \A raffleId \in ExistingIds :
    ~RaffleAt(raffleId).isDrawn =>
      /\ EntryWindowOpen(raffleId) <=> now < RaffleAt(raffleId).expireAt
      /\ DrawWindowOpen(raffleId) <=> now >= RaffleAt(raffleId).expireAt
      /\ EntryWindowOpen(raffleId) # DrawWindowOpen(raffleId)
      /\ now = RaffleAt(raffleId).expireAt =>
           /\ \A sender \in Callers :
                enterRaffle_reverts(sender, raffleId) = {"Raffle has expired"}
           /\ drawWinner_revert(RaffleAt(raffleId).creator, raffleId)
                \in {"ok", "No entries"}

\* an undrawn raffle with an entry at the very instant now = expireAt: no
\* entry is taken any more and its creator's draw is let through
C33_Witness ==
  \E raffleId \in ExistingIds :
    /\ ~RaffleAt(raffleId).isDrawn
    /\ now = RaffleAt(raffleId).expireAt
    /\ getEntryCount(raffleId) = 1
    /\ ~EntryWindowOpen(raffleId)
    /\ drawWinner_revert(RaffleAt(raffleId).creator, raffleId) = "ok"

\* C34: the clock never goes back, and no entry is added to a raffle at or
\* after its expireAt or after its draw: every stored entry has createdAt <
\* expireAt of its raffle, and from expireAt on, so also from the draw on,
\* the entry sequence of the raffle stays what it is.
C34_NoLateEntries ==
  [][ /\ now' >= now
      /\ \A raffleId \in ExistingIds :
           /\ \A i \in EntryIndexes(raffleId) :
                EntryAt(raffleId, i).createdAt < RaffleAt(raffleId).expireAt
           /\ \A i \in 0 .. (Len(_entries'[raffleId]) - 1) :
                _entries'[raffleId][i + 1].createdAt < RaffleAt(raffleId).expireAt
           /\ (now >= RaffleAt(raffleId).expireAt \/ RaffleAt(raffleId).isDrawn)
                => _entries'[raffleId] = _entries[raffleId]
           /\ RaffleAt(raffleId).isDrawn => now >= RaffleAt(raffleId).expireAt ]_vars

\* a raffle drawn over its two entries an hour ago: the entries are those
\* made before its expireAt
C34_Witness ==
  \E raffleId \in ExistingIds :
    /\ RaffleAt(raffleId).isDrawn
    /\ getEntryCount(raffleId) = 2
    /\ \E drawnAt \in DrawnAt(raffleId) : drawnAt < now
    /\ \A i \in EntryIndexes(raffleId) :
         EntryAt(raffleId, i).createdAt < RaffleAt(raffleId).expireAt

\* C35: a raffle whose expireAt passes while it has no entry is inert for
\* ever: from then on every enterRaffle on it fails with "Raffle has
\* expired", drawWinner fails with "No entries" for its creator and with
\* "Only creator can draw" for anybody else, and its record stays as it is:
\* isActive, not isDrawn, no winner.
C35_EmptyExpiredIsInert ==
  [][ \A raffleId \in RaffleKeys :
        Stuck(raffleId) =>
          /\ \A sender \in Callers :
               /\ enterRaffle_reverts(sender, raffleId) = {"Raffle has expired"}
               /\ drawWinner_revert(sender, raffleId) =
                    IF sender = RaffleAt(raffleId).creator
                    THEN "No entries" ELSE "Only creator can draw"
          /\ RaffleAt(raffleId).isActive
          /\ RaffleAt(raffleId).winner = ZeroAddress
          /\ _raffles'[raffleId + 1] = RaffleAt(raffleId)
          /\ _entries'[raffleId] = << >>
          /\ events'[raffleId] = events[raffleId]
          /\ Stuck(raffleId)' ]_vars

\* a raffle that expired without an entry an hour ago, still as it was
\* created, while another raffle has been entered and drawn
C35_Witness ==
  \E empty, other \in ExistingIds :
    /\ Stuck(empty)
    /\ now > RaffleAt(empty).expireAt
    /\ Len(events[empty]) = 1
    /\ RaffleAt(empty).isActive /\ RaffleAt(empty).winner = ZeroAddress
    /\ IsDrawn(other)

\* the shape of the event log of a raffle: RaffleCreated, then one
\* EntrySubmitted per stored entry in the order of the entries, then
\* RaffleDrawn with the stored winner exactly when the raffle is drawn
EventShape(raffleId) ==
  LET log == events[raffleId]
      entries == _entries[raffleId]
  IN  IF raffleId \notin ExistingIds THEN log = << >>
      ELSE /\ Len(log) = 1 + Len(entries) + (IF RaffleAt(raffleId).isDrawn THEN 1 ELSE 0)
           /\ log[1].name = "RaffleCreated"
           /\ log[1].raffleId = raffleId
           /\ \A i \in 1 .. Len(entries) :
                /\ log[1 + i].name = "EntrySubmitted"
                /\ log[1 + i].raffleId = raffleId
                /\ log[1 + i].participant = entries[i].participant
           /\ RaffleAt(raffleId).isDrawn =>
                /\ log[Len(log)].name = "RaffleDrawn"
                /\ log[Len(log)].raffleId = raffleId
                /\ log[Len(log)].winner = RaffleAt(raffleId).winner

\* every enterRaffle and every drawWinner on the raffle fails
EveryCallFails(raffleId) ==
  \A sender \in Callers :
    /\ "ok" \notin enterRaffle_reverts(sender, raffleId)
    /\ drawWinner_revert(sender, raffleId) # "ok"

\* C36: the event log of every raffle r is append-only and always has the
\* shape: one RaffleCreated(r) first, then one EntrySubmitted(r,
\* participant) per stored entry in the order of the entries, then at most
\* one RaffleDrawn(r, winner), last and naming the stored winner; a step
\* adds at most one event, and none to a raffle on which every operation
\* fails.
C36_EventLogShape ==
  [][ \A raffleId \in RaffleKeys :
        /\ EventShape(raffleId)
        /\ EventShape(raffleId)'
        /\ \/ events'[raffleId] = events[raffleId]
           \/ /\ Len(events'[raffleId]) = Len(events[raffleId]) + 1
              /\ SubSeq(events'[raffleId], 1, Len(events[raffleId])) = events[raffleId]
              /\ tx'.raffleId = raffleId
              /\ \A other \in RaffleKeys \ {raffleId} : events'[other] = events[other]
        /\ (raffleId \in ExistingIds /\ EveryCallFails(raffleId))
             => events'[raffleId] = events[raffleId] ]_vars

\* a raffle drawn over two entries: its log has RaffleCreated, the two
\* EntrySubmitted in the order of the entries and RaffleDrawn last
C36_Witness ==
  \E raffleId \in ExistingIds :
    /\ Len(events[raffleId]) = 4
    /\ events[raffleId][1].name = "RaffleCreated"
    /\ events[raffleId][2].participant = EntryAt(raffleId, 0).participant
    /\ events[raffleId][3].participant = EntryAt(raffleId, 1).participant
    /\ events[raffleId][4].name = "RaffleDrawn"
    /\ events[raffleId][4].winner = RaffleAt(raffleId).winner

\* the RaffleDrawn event of a drawn raffle
DrawnEvent(raffleId) == events[raffleId][Len(events[raffleId])]

LocalChainId == 31337

SepoliaChainId == 11155111

\* contractUtils.ts 27-34: the local network runs FHERaffleLocal, Sepolia
\* runs FHERaffle
chainId ==
  IF variant = "plaintext" THEN LocalChainId ELSE SepoliaChainId

\* contractUtils.ts 68-122, the front end's getRaffleMeta(raffleId, chainId):
\* the tuple returned by the contract is read by position, meta[6] and
\* meta[7] of the source being the 7th and 8th component here. The
\* components are single ABI words, so the position alone decides which of
\* the contract's values a field receives.
contractUtils_getRaffleMeta(raffleId, chain) ==
  LET meta == getRaffleMeta(raffleId)
  IN  IF chain = LocalChainId
      THEN [ creator |-> meta[1], title |-> meta[2], description |-> meta[3],
             prizeAmount |-> meta[4], entryFee |-> meta[5], maxEntries |-> meta[6],
             currentEntries |-> meta[7], expireAt |-> meta[8],
             isActive |-> meta[9], isDrawn |-> meta[10], winner |-> meta[11],
             createdAt |-> meta[12] ]
      ELSE [ creator |-> meta[1], title |-> meta[2], description |-> meta[3],
             prizeAmount |-> meta[4], entryFee |-> meta[5], maxEntries |-> meta[6],
             expireAt |-> meta[7], currentEntries |-> meta[8],
             isActive |-> meta[9], isDrawn |-> meta[10], winner |-> meta[11],
             createdAt |-> meta[12] ]

\* C38 as stated: on both networks, for every raffle, the front end's
\* getRaffleMeta(raffleId, chainId) yields the currentEntries and the
\* expireAt that the contract has stored.
C38_DecoderYieldsStored ==
  \A raffleId \in ExistingIds :
    /\ contractUtils_getRaffleMeta(raffleId, chainId).currentEntries =
         RaffleAt(raffleId).currentEntries
    /\ contractUtils_getRaffleMeta(raffleId, chainId).expireAt =
         RaffleAt(raffleId).expireAt

\* what the code does: both contracts return currentEntries before
\* expireAt, so the front end is right on the local network and has the two
\* exchanged on Sepolia
C38_DecoderSwapsOnSepolia ==
  \A raffleId \in ExistingIds :
    /\ getRaffleMeta(raffleId)[7] = RaffleAt(raffleId).currentEntries
    /\ getRaffleMeta(raffleId)[8] = RaffleAt(raffleId).expireAt
    /\ contractUtils_getRaffleMeta(raffleId, LocalChainId).currentEntries =
         RaffleAt(raffleId).currentEntries
    /\ contractUtils_getRaffleMeta(raffleId, LocalChainId).expireAt =
         RaffleAt(raffleId).expireAt
    /\ contractUtils_getRaffleMeta(raffleId, SepoliaChainId).currentEntries =
         RaffleAt(raffleId).expireAt
    /\ contractUtils_getRaffleMeta(raffleId, SepoliaChainId).expireAt =
         RaffleAt(raffleId).currentEntries

\* C39: enterRaffle checks nothing about its caller but non-membership: on
\* every raffle, a caller and the raffle's creator who are both members or
\* both not get the same outcome from every enterRaffle call, and a call of
\* the creator that passes the requires is carried out.
C39_CreatorEntersLikeAnyone ==
  \A raffleId \in ExistingIds :
    LET creator == RaffleAt(raffleId).creator
    IN  /\ \A sender \in Callers :
             hasEntered(raffleId, sender) = hasEntered(raffleId, creator) =>
               /\ \A proofValid \in BOOLEAN :
                    FHERaffle_enterRaffle_revert(sender, raffleId, proofValid) =
                      FHERaffle_enterRaffle_revert(creator, raffleId, proofValid)
               /\ \A amount \in Amounts :
                    FHERaffleLocal_enterRaffle_revert(sender, raffleId, amount) =
                      FHERaffleLocal_enterRaffle_revert(creator, raffleId, amount)
        /\ (~hasEntered(raffleId, creator) /\ ~Full(raffleId)
              /\ now < RaffleAt(raffleId).expireAt /\ TotalEntries < MaxEntriesTotal) =>
             /\ variant = "confidential" =>
                  \A hidden \in HiddenAmounts :
                    ENABLED FHERaffle_enterRaffle(creator, raffleId, hidden, TRUE)
             /\ variant = "plaintext" =>
                  \A amount \in Amounts :
                    amount >= RaffleAt(raffleId).entryFee =>
                      \A value \in Values :
                        ENABLED FHERaffleLocal_enterRaffle(creator, raffleId, amount, value)

\* the creator has entered their own raffle, has just drawn it, and is its
\* winner
C39_Witness ==
  \E raffleId \in ExistingIds :
    /\ hasEntered(raffleId, RaffleAt(raffleId).creator)
    /\ tx = Transaction("drawWinner", RaffleAt(raffleId).creator, raffleId)
    /\ RaffleAt(raffleId).isDrawn
    /\ RaffleAt(raffleId).winner = RaffleAt(raffleId).creator
    /\ getEntryCount(raffleId) = 2

\* C40: no operation of either contract sends value out: the balance of the
\* contract never decreases, a draw leaves it as it is, and it grows only by
\* the value attached to a plaintext enterRaffle, which is taken whatever
\* the declared amount and the entryFee are (nothing attached included);
\* the confidential contract, having no payable function, holds nothing.
C40_NoValueLeaves ==
  [][ /\ balance' >= balance
      /\ (\E sender \in Callers : \E raffleId \in RaffleKeys : Drawn(sender, raffleId))
           => balance' = balance
      /\ balance' # balance =>
           /\ variant = "plaintext"
           /\ tx'.function = "enterRaffle"
           /\ balance' - balance \in Values
      /\ variant = "confidential" => balance = 0
      /\ variant = "plaintext" =>
           \A sender \in Callers : \A raffleId \in ExistingIds : \A amount \in Amounts :
             ( /\ FHERaffleLocal_enterRaffle_revert(sender, raffleId, amount) = "ok"
               /\ TotalEntries < MaxEntriesTotal ) =>
               \A value \in Values :
                 ENABLED ( /\ FHERaffleLocal_enterRaffle(sender, raffleId, amount, value)
                           /\ balance' = balance + value ) ]_vars

\* a plaintext raffle with a prize of 5 just drawn over two entries, one
\* sent with one wei and one with nothing: the contract holds 1, less than
\* the entryFee of each entry together and less than the prize, and the
\* draw has left it there
C40_Witness ==
  /\ variant = "plaintext"
  /\ balance = 1
  /\ \E raffleId \in ExistingIds :
       /\ tx = Transaction("drawWinner", RaffleAt(raffleId).creator, raffleId)
       /\ RaffleAt(raffleId).isDrawn
       /\ RaffleAt(raffleId).winner # ZeroAddress
       /\ RaffleAt(raffleId).prizeAmount = 5
       /\ RaffleAt(raffleId).entryFee = 1
       /\ getEntryCount(raffleId) = 2

====
